---- MODULE Spec2Model ----
(***************************************************************************)
(* Hybrid search + rank fusion (14_hybrid_search_agent.py) and the         *)
(* reranking pipeline (15_reranking_agent.py) as state machines.           *)
(*                                                                         *)
(* Scores are fixed-point integers in units of 1/ScoreUnit.  ScoreUnit is  *)
(* the least common multiple of 61..64, so the reciprocal ranks            *)
(* 1/(60+rank) of ranks 1..4 are exact.  Natural logarithms are tabulated  *)
(* (rounded to the unit).  A text is a sequence of whitespace-separated    *)
(* words; what the regular expressions and str methods do to a word is     *)
(* tabulated per word.                                                     *)
(***************************************************************************)
EXTENDS Integers, Sequences, FiniteSets, TLC

VARIABLES
    docs,      \* heap of Document objects: DocRef -> Document
    lists,     \* heap of list objects holding Document references
    bm25,      \* BM25Searcher fields
    dense,     \* DenseSearcher fields
    splade,    \* SPLADESearcher fields
    weights,   \* HybridSearchAgent.weights
    call,      \* the last completed call on the agent and what it returned
    fz,        \* caller-held result lists handed to the fusion methods
    al,        \* caller of dynamic_alpha_adjustment
    rk,        \* caller of the reranking agent
    th         \* threads running against one agent (interleaving models)

vars == <<docs, lists, bm25, dense, splade, weights, call, fz, al, rk, th>>

agentVars == <<docs, lists, bm25, dense, splade, weights>>

(***************************************************************************)
(* Bounds                                                                  *)
(***************************************************************************)
NDocs == 3          \* Document objects the caller owns
MaxTopK == 2        \* largest top_k a caller passes to search

\* a variable a specification does not use
Idle == [idle |-> TRUE]

(***************************************************************************)
(* Generic helpers                                                         *)
(***************************************************************************)
Min(a, b) == IF a < b THEN a ELSE b
Max(a, b) == IF a > b THEN a ELSE b

None == [some |-> FALSE]
Some(x) == [some |-> TRUE, v |-> x]

EmptyMap == [x \in {} |-> 0]

RECURSIVE SumSeq(_)
SumSeq(s) == IF s = <<>> THEN 0 ELSE Head(s) + SumSeq(Tail(s))

RECURSIVE SumOver(_, _)
\* sum of f[x] over the finite set S
SumOver(S, f) ==
    IF S = {} THEN 0
    ELSE LET x == CHOOSE y \in S : TRUE IN f[x] + SumOver(S \ {x}, f)

\* Python's seq[:k]
Slice(s, k) ==
    IF k >= 0 THEN SubSeq(s, 1, Min(k, Len(s)))
    ELSE SubSeq(s, 1, Max(0, Len(s) + k))

\* floor(a * b / c) for a, b >= 0 and c > 0 without leaving 32 bits
MulDiv(a, b, c) == (a \div c) * b + ((a % c) * b) \div c

\* x / d rounded toward zero at the score unit, for d > 0
DivTrunc(x, d) == IF x >= 0 THEN x \div d ELSE -((-x) \div d)

ISqrt(n) == CHOOSE r \in 0..n : r * r <= n /\ n < (r + 1) * (r + 1)

ScoreUnit == 61 * 31 * 63 * 64

\* round(ln(n) * sqrt(ScoreUnit)): the product of two is in score units
LnRoot(n) ==
    CASE n = 1 -> 0
      [] n = 2 -> 1914
      [] n = 3 -> 3034
      [] n = 4 -> 3828
      [] n = 5 -> 4444
      [] n = 6 -> 4947
      [] n = 7 -> 5373
      [] OTHER -> 5742

RECURSIVE InsertDescBeforeEqual(_, _)
\* mutant: x goes before the elements whose score equals its own
InsertDescBeforeEqual(x, s) ==
    IF s = <<>> THEN <<x>>
    ELSE IF Head(s).score > x.score
         THEN <<Head(s)>> \o InsertDescBeforeEqual(x, Tail(s))
    ELSE <<x>> \o s

RECURSIVE InsertDesc(_, _)
\* x goes after every element whose score is >= its own
InsertDesc(x, s) ==
    IF s = <<>> THEN <<x>>
    ELSE IF Head(s).score >= x.score THEN <<Head(s)>> \o InsertDesc(x, Tail(s))
    ELSE <<x>> \o s

RECURSIVE SortDesc(_)
\* list.sort(key=score, reverse=True): stable, equal scores keep their order
SortDesc(s) ==
    IF s = <<>> THEN <<>>
    ELSE InsertDesc(s[Len(s)], SortDesc(SubSeq(s, 1, Len(s) - 1)))

(***************************************************************************)
(* Texts and the tokenizer                                                 *)
(***************************************************************************)
\* text.lower(), punctuation replaced by a space, split, tokens of at most
\* two characters dropped -- per word
WordTokens(w) ==
    CASE w = "python" -> <<"python">>
      [] w = "Python" -> <<"python">>
      [] w = "code" -> <<"code">>
      [] w = "web" -> <<"web">>
      [] w = "Web." -> <<"web">>
      [] w = "Node.js" -> <<"node">>
      [] w = "py" -> <<>>
      [] OTHER -> <<w>>

\* the content of a document built with content=None: text.lower() raises
\* AttributeError
NoContent == <<"<None>">>

TokenizeRaises(text) == text = NoContent

RECURSIVE tokenize(_)
tokenize(text) ==
    IF text = <<>> THEN <<>>
    ELSE WordTokens(Head(text)) \o tokenize(Tail(text))

\* w[0].isupper()
IsUpperWord(w) == w \in {"Python", "Web.", "Node.js"}

\* sorted(): the terms in str order
TermOrder == <<"code", "node", "python", "web">>

TermPos(t) == CHOOSE i \in DOMAIN TermOrder : TermOrder[i] = t

\* Counter(tokens)[t]
CountOf(tokens, t) == Cardinality({i \in DOMAIN tokens : tokens[i] = t})

TermSet(tokens) == {tokens[i] : i \in DOMAIN tokens}

(***************************************************************************)
(* Documents                                                               *)
(***************************************************************************)
DocRefs == 1..NDocs

DocIds == <<"doc1", "doc2", "doc3", "doc4", "doc5">>

\* The Document objects the caller constructs.  Embeddings have four
\* components (768 in the demo); their norms are whole numbers.
NewDocument(r) ==
    CASE r = 1 ->
           [doc_id |-> DocIds[1], content |-> <<"Python", "code">>,
            metadata |-> [file_type |-> "python"],
            embedding |-> Some(<<1, 1, 1, 1>>), sparse_vector |-> None]
      [] r = 2 ->
           [doc_id |-> DocIds[2], content |-> <<"web", "Node.js", "python", "py">>,
            metadata |-> [file_type |-> "javascript", author |-> "jane"],
            embedding |-> Some(<<3, 4, 0, 0>>), sparse_vector |-> None]
      [] r = 3 ->
           [doc_id |-> DocIds[3], content |-> <<"py">>,
            metadata |-> EmptyMap,
            embedding |-> None, sparse_vector |-> None]
      [] OTHER ->
           [doc_id |-> DocIds[Min(r, 5)], content |-> <<"python", "python", "Web.">>,
            metadata |-> [file_type |-> "python", author |-> "john"],
            embedding |-> Some(<<-1, -1, -1, -1>>), sparse_vector |-> None]

\* the list objects: 0 is the empty list a searcher creates in __init__,
\* 1 and 2 are lists the caller builds and passes to build_index
CallerLists == {1, 2}
ListRefs == {0} \cup CallerLists

RECURSIVE Ascending(_, _)
\* the sequences lo, ..., hi with any of the elements left out
Ascending(lo, hi) ==
    IF lo > hi THEN {<<>>}
    ELSE LET rest == Ascending(lo + 1, hi)
         IN rest \cup {<<lo>> \o s : s \in rest}

Reverse(s) == [i \in DOMAIN s |-> s[Len(s) + 1 - i]]

\* the document lists a caller passes: references in creation order or in
\* the opposite order, any subset of the Document objects
Corpora == Ascending(1, NDocs) \cup {Reverse(s) : s \in Ascending(1, NDocs)}

\* what the caller's second list holds
SecondCorpora == {<<>>, <<2, 1>>}

(***************************************************************************)
(* BM25Searcher                                                            *)
(***************************************************************************)
\* k1 = 1.5 and b = 0.75 as fractions
K1Num == 3
K1Den == 2
BNum == 3
BDen == 4

\* round(ln((N - df + 0.5) / (df + 0.5) + 1) * ScoreUnit)
IdfTable ==
    <<  <<2193435>>,
        <<5284909, 1390113>>,
        <<7478344, 3583548, 1018112>>,
        <<9179705, 5284909, 2719472, 803323>>,
        <<10569818, 6675022, 4109585, 2193435, 663419>>,
        <<11745142, 7850346, 5284909, 3368759, 1838743, 565037>> >>

\* mutant: the idf without the "+ 1.0" inside the logarithm,
\* round(ln((N - df + 0.5) / (df + 0.5)) * ScoreUnit)
IdfWithoutPlusOne(N, df) ==
    LET table ==
         << <<-8376383>>,
            <<0, -12271179>>,
            <<3894796, -3894796, -14836615>>,
            <<6460233, 0, -6460233, -16752765>>,
            <<8376383, 2565437, -2565437, -8376383, -18282781>>,
            <<9906399, 4481586, 0, -4481586, -9906399, -19556487>> >>
    IN table[N][df]

IdfOf(N, df) == IdfTable[N][df]

BM25Init ==
    [documents |-> 0, doc_lengths |-> <<>>, avg_num |-> 0, avg_den |-> 1,
     idf |-> EmptyMap, term_doc_freq |-> EmptyMap]

\* mutant: the average without the guard for an empty corpus
AvgDocLengthUnguarded(doc_lengths) ==
    [num |-> SumSeq(doc_lengths), den |-> Max(1, Len(doc_lengths)),
     raised |-> doc_lengths = <<>>]

\* self.avg_doc_length as the fraction avg_num / avg_den
AvgDocLength(doc_lengths) ==
    IF doc_lengths # <<>>
    THEN [num |-> SumSeq(doc_lengths), den |-> Len(doc_lengths), raised |-> FALSE]
    ELSE [num |-> 0, den |-> 1, raised |-> FALSE]

\* term_doc_counts after the loop over the documents
TermDocCounts(h, refs) ==
    LET terms == UNION {TermSet(tokenize(h[refs[i]].content)) : i \in DOMAIN refs}
    IN [t \in terms |->
          Cardinality({i \in DOMAIN refs : t \in TermSet(tokenize(h[refs[i]].content))})]

\* self.idf[term] = ... for the terms of this corpus; other entries stay
IdfUpdate(old, counts, N) ==
    [t \in DOMAIN old \cup DOMAIN counts |->
        IF t \in DOMAIN counts THEN IdfOf(N, counts[t]) ELSE old[t]]

\* BM25Searcher.build_index(documents), the whole call.  When tokenize
\* raises on a document the call ends there: documents is the new list,
\* doc_lengths holds the lengths appended so far, the rest is untouched.
BM25BuildIndex(self, h, ls, l) ==
    LET refs == ls[l]
        lens == [i \in DOMAIN refs |-> Len(tokenize(h[refs[i]].content))]
        avg == AvgDocLength(lens)
        counts == TermDocCounts(h, refs)
        bad == {i \in DOMAIN refs : TokenizeRaises(h[refs[i]].content)}
    IN IF bad # {}
       THEN [self |-> [self EXCEPT
                          !.documents = l,
                          !.doc_lengths =
                              SubSeq(lens, 1, (CHOOSE i \in bad : \A j \in bad : i <= j) - 1)],
             raised |-> "AttributeError"]
       ELSE IF avg.raised
       THEN [self |-> [self EXCEPT !.documents = l, !.doc_lengths = lens],
             raised |-> "ZeroDivisionError"]
       ELSE [self |-> [documents |-> l, doc_lengths |-> lens,
                       avg_num |-> avg.num, avg_den |-> avg.den,
                       idf |-> IdfUpdate(self.idf, counts, Len(refs)),
                       term_doc_freq |-> counts],
             raised |-> "none"]

\* normalized_length as a fraction: doc_length / avg_doc_length, or 1.0
NormalizedLength(doc_length, avg_num, avg_den) ==
    IF avg_num > 0
    THEN [num |-> doc_length * avg_den, den |-> avg_num, raised |-> FALSE]
    ELSE [num |-> 1, den |-> 1, raised |-> FALSE]

\* idf * (tf * (k1 + 1)) / (tf + k1 * (1 - b + b * normalized_length))
BM25Term(idf, tf, nl) ==
    LET P == tf * (K1Num + K1Den) * BDen * nl.den
        Q == tf * K1Den * BDen * nl.den
             + K1Num * ((BDen - BNum) * nl.den + BNum * nl.num)
    IN MulDiv(idf, P, Q)

\* the score of one document for the query tokens (one summand per
\* occurrence of a query token that the document contains)
BM25Score(self, doc_tokens, doc_length, query_tokens) ==
    LET nl == NormalizedLength(doc_length, self.avg_num, self.avg_den)
        summand == [j \in DOMAIN query_tokens |->
            LET term == query_tokens[j]
                tf == CountOf(doc_tokens, term)
            IN IF tf = 0 THEN 0
               ELSE BM25Term(IF term \in DOMAIN self.idf THEN self.idf[term] ELSE 0,
                             tf, nl)]
    IN SumSeq(summand)

\* the (i, score) list before sorting.  The loop ends at the first
\* document on which tokenize raises, on which doc_lengths[i] raises
\* IndexError (the list is shorter than documents) or on which the
\* division by the average raises.
BM25Scores(self, h, ls, query) ==
    LET refs == ls[self.documents]
        qt == tokenize(query)
        Outcome(i) ==
            IF TokenizeRaises(h[refs[i]].content) THEN "AttributeError"
            ELSE IF i > Len(self.doc_lengths) THEN "IndexError"
            ELSE IF /\ TermSet(qt) \cap TermSet(tokenize(h[refs[i]].content)) # {}
                    /\ NormalizedLength(self.doc_lengths[i], self.avg_num,
                                        self.avg_den).raised
            THEN "ZeroDivisionError"
            ELSE "none"
        failing == {i \in DOMAIN refs : Outcome(i) # "none"}
    IN IF failing # {}
       THEN [raised |-> Outcome(CHOOSE i \in failing : \A j \in failing : i <= j),
             scores |-> <<>>]
       ELSE [raised |-> "none",
             scores |-> [i \in DOMAIN refs |->
                 [idx |-> i,
                  score |-> BM25Score(self, tokenize(h[refs[i]].content),
                                      self.doc_lengths[i], qt)]]]

MakeResult(doc, score, rank, method) ==
    [doc_id |-> doc.doc_id, score |-> score, rank |-> rank,
     content |-> doc.content, metadata |-> doc.metadata, method |-> method]

\* mutant: the scores are not sorted before the slice
BM25SearchUnsorted(self, h, ls, query, top_k) ==
    LET sc == BM25Scores(self, h, ls, query)
        top == Slice(sc.scores, top_k)
        refs == ls[self.documents]
    IN [raised |-> sc.raised,
        results |-> [r \in DOMAIN top |->
            MakeResult(h[refs[top[r].idx]], top[r].score, r, "bm25")]]

\* BM25Searcher.search(query, top_k)
BM25Search(self, h, ls, query, top_k) ==
    LET sc == BM25Scores(self, h, ls, query)
        top == Slice(SortDesc(sc.scores), top_k)
        refs == ls[self.documents]
    IN [raised |-> sc.raised,
        results |-> [r \in DOMAIN top |->
            MakeResult(h[refs[top[r].idx]], top[r].score, r, "bm25")]]

(***************************************************************************)
(* DenseSearcher                                                           *)
(***************************************************************************)
\* embed_query: the same dummy vector for every query
EmbedQuery(query) == <<1, 1, 1, 1>>

Dot(v1, v2) == SumSeq([i \in DOMAIN v1 |-> v1[i] * v2[i]])

\* mutant: vectors of different lengths are compared over the shorter one
CosineSimilarityAnyLength(vec1, vec2) ==
    IF vec1 = <<>> \/ vec2 = <<>> THEN 0
    ELSE LET n == Min(Len(vec1), Len(vec2))
             norm1 == ISqrt(Dot(vec1, vec1))
             norm2 == ISqrt(Dot(vec2, vec2))
         IN IF norm1 = 0 \/ norm2 = 0 THEN 0
            ELSE DivTrunc(Dot(SubSeq(vec1, 1, n), SubSeq(vec2, 1, n)) * ScoreUnit,
                          norm1 * norm2)

CosineSimilarity(vec1, vec2) ==
    IF vec1 = <<>> \/ vec2 = <<>> \/ Len(vec1) # Len(vec2) THEN 0
    ELSE LET norm1 == ISqrt(Dot(vec1, vec1))
             norm2 == ISqrt(Dot(vec2, vec2))
         IN IF norm1 = 0 \/ norm2 = 0 THEN 0
            ELSE DivTrunc(Dot(vec1, vec2) * ScoreUnit, norm1 * norm2)

DenseSearch(self, h, ls, query, top_k) ==
    LET refs == ls[self.documents]
        qe == EmbedQuery(query)
        scores == [i \in DOMAIN refs |->
            [idx |-> i,
             score |-> IF ~h[refs[i]].embedding.some THEN 0
                       ELSE CosineSimilarity(qe, h[refs[i]].embedding.v)]]
        top == Slice(SortDesc(scores), top_k)
    IN [r \in DOMAIN top |-> MakeResult(h[refs[top[r].idx]], top[r].score, r, "dense")]

(***************************************************************************)
(* SPLADESearcher                                                          *)
(***************************************************************************)
SpladeInit == [documents |-> 0, vocab |-> EmptyMap]

\* {term: i for i, term in enumerate(sorted(all_terms))}
BuildVocab(h, refs) ==
    LET all_terms == UNION {TermSet(tokenize(h[refs[i]].content)) : i \in DOMAIN refs}
    IN [t \in all_terms |-> Cardinality({u \in all_terms : TermPos(u) < TermPos(t)})]

\* term_id -> log(1 + count) for the terms the vocabulary knows
EncodeToSparseVector(vocab, text) ==
    LET tokens == tokenize(text)
        known == TermSet(tokens) \cap DOMAIN vocab
    IN [id \in {vocab[t] : t \in known} |->
          LET t == CHOOSE u \in known : vocab[u] = id
          IN LnRoot(1 + CountOf(tokens, t))]

\* SPLADESearcher.build_index(documents): the documents that carry no
\* sparse vector get one; the others keep theirs
SpladeBuildIndex(h, ls, l) ==
    LET refs == ls[l]
        vocab == BuildVocab(h, refs)
        used == {refs[i] : i \in DOMAIN refs}
    IN [self |-> [documents |-> l, vocab |-> vocab],
        docs |-> [r \in DOMAIN h |->
            IF r \in used /\ ~h[r].sparse_vector.some
            THEN [h[r] EXCEPT !.sparse_vector =
                      Some(EncodeToSparseVector(vocab, h[r].content))]
            ELSE h[r]]]

SparseSimilarity(vec1, vec2) ==
    SumOver(DOMAIN vec1 \cap DOMAIN vec2, [id \in DOMAIN vec1 \cap DOMAIN vec2 |-> vec1[id] * vec2[id]])

SpladeSearch(self, h, ls, query, top_k) ==
    LET refs == ls[self.documents]
        qv == EncodeToSparseVector(self.vocab, query)
        scores == [i \in DOMAIN refs |->
            [idx |-> i,
             score |-> IF ~h[refs[i]].sparse_vector.some THEN 0
                       ELSE SparseSimilarity(qv, h[refs[i]].sparse_vector.v)]]
        top == Slice(SortDesc(scores), top_k)
    IN [r \in DOMAIN top |-> MakeResult(h[refs[top[r].idx]], top[r].score, r, "splade")]


(***************************************************************************)
(* HybridSearchAgent: fusion                                               *)
(***************************************************************************)
RRFConstant == 60

WeightsInit == [bm25 |-> 3, dense |-> 4, splade |-> 3]     \* tenths

Methods == <<"bm25", "dense", "splade">>

RECURSIVE Occurrences(_, _)
\* the (list, position) pairs in the order the nested loops visit them
Occurrences(result_lists, l) ==
    IF l > Len(result_lists) THEN <<>>
    ELSE [p \in DOMAIN result_lists[l] |-> [l |-> l, p |-> p]]
         \o Occurrences(result_lists, l + 1)

At(result_lists, o) == result_lists[o.l][o.p]

\* the keys of the score dict in insertion order
RECURSIVE KeyOrder(_, _, _)
KeyOrder(result_lists, occ, seen) ==
    IF occ = <<>> THEN <<>>
    ELSE LET id == At(result_lists, Head(occ)).doc_id
         IN IF id \in seen THEN KeyOrder(result_lists, Tail(occ), seen)
            ELSE <<id>> \o KeyOrder(result_lists, Tail(occ), seen \cup {id})

\* doc_map[doc_id]: the last object visited with that doc_id
DocMap(result_lists, occ, id) ==
    occ[CHOOSE i \in DOMAIN occ :
            /\ At(result_lists, occ[i]).doc_id = id
            /\ \A j \in DOMAIN occ : At(result_lists, occ[j]).doc_id = id => j <= i]

\* mutant: the rank counted from 0
ReciprocalRankZeroBased(k, rank) == ScoreUnit \div (k + rank - 1)

\* 1.0 / (k + rank)
ReciprocalRank(k, rank) == ScoreUnit \div (k + rank)

\* what one visited object adds to its document's RRF score
RRFContribution(result, k) == ReciprocalRank(k, result.rank)

\* mutant: the weight is left out
WeightedContributionUnweighted(result, weight) == result.score

\* what one visited object adds to its document's weighted score
WeightedContribution(result, weight) == DivTrunc(result.score * weight, 10)

\* the common tail of both fusion methods: sort the score dict, then
\* rewrite score, rank and method of doc_map's objects in place.  Returns
\* the fused list and the input lists as the call leaves them.
Refuse(result_lists, occ, score, method) ==
    LET keys == KeyOrder(result_lists, occ, {})
        items == [i \in DOMAIN keys |-> [doc_id |-> keys[i], score |-> score[keys[i]]]]
        sorted_docs == SortDesc(items)
        rankOf == [id \in {keys[i] : i \in DOMAIN keys} |->
                      CHOOSE r \in DOMAIN sorted_docs : sorted_docs[r].doc_id = id]
        rewritten(o) ==
            LET res == At(result_lists, o)
            IN [res EXCEPT !.score = score[res.doc_id],
                           !.rank = rankOf[res.doc_id],
                           !.method = method]
    IN [fused |-> [r \in DOMAIN sorted_docs |->
                      rewritten(DocMap(result_lists, occ, sorted_docs[r].doc_id))],
        lists |-> [l \in DOMAIN result_lists |->
                      [q \in DOMAIN result_lists[l] |->
                          LET o == [l |-> l, p |-> q]
                          IN IF l <= Len(result_lists)
                                /\ \E i \in DOMAIN occ : occ[i] = o
                                /\ DocMap(result_lists, occ, result_lists[l][q].doc_id) = o
                             THEN rewritten(o)
                             ELSE result_lists[l][q]]]]

\* HybridSearchAgent.reciprocal_rank_fusion(result_lists, k)
ReciprocalRankFusion(result_lists, k) ==
    LET occ == Occurrences(result_lists, 1)
        ids == {At(result_lists, occ[i]).doc_id : i \in DOMAIN occ}
        rrf_scores == [id \in ids |->
            SumSeq([i \in DOMAIN occ |->
                IF At(result_lists, occ[i]).doc_id = id
                THEN RRFContribution(At(result_lists, occ[i]), k) ELSE 0])]
    IN Refuse(result_lists, occ, rrf_scores, "hybrid")

\* HybridSearchAgent.weighted_fusion(result_lists): zip() stops after the
\* three methods
WeightedFusion(w, result_lists) ==
    LET zipped == SubSeq(result_lists, 1, Min(Len(result_lists), Len(Methods)))
        occ == Occurrences(zipped, 1)
        ids == {At(result_lists, occ[i]).doc_id : i \in DOMAIN occ}
        weighted_scores == [id \in ids |->
            SumSeq([i \in DOMAIN occ |->
                IF At(result_lists, occ[i]).doc_id = id
                THEN WeightedContribution(At(result_lists, occ[i]), w[Methods[occ[i].l]])
                ELSE 0])]
    IN Refuse(result_lists, occ, weighted_scores, "hybrid_weighted")

(***************************************************************************)
(* HybridSearchAgent: dynamic alpha, search, search_with_metadata          *)
(***************************************************************************)
\* mutant: the branch for long queries is left out
DynamicAlphaWithoutLong(query) ==
    LET word_count == Len(query)
        base == IF word_count <= 3 THEN [bm25 |-> 4, dense |-> 2, splade |-> 4]
                ELSE [bm25 |-> 3, dense |-> 4, splade |-> 3]
        proper_nouns == Cardinality({i \in DOMAIN query : IsUpperWord(query[i])})
    IN IF 2 * proper_nouns >= word_count
       THEN [base EXCEPT !.bm25 = @ + 1, !.dense = @ - 1]
       ELSE base

\* mutant: the capitalised words must be a strict majority
DynamicAlphaStrictMajority(query) ==
    LET word_count == Len(query)
        base == IF word_count <= 3 THEN [bm25 |-> 4, dense |-> 2, splade |-> 4]
                ELSE IF word_count >= 10 THEN [bm25 |-> 2, dense |-> 5, splade |-> 3]
                ELSE [bm25 |-> 3, dense |-> 4, splade |-> 3]
        proper_nouns == Cardinality({i \in DOMAIN query : IsUpperWord(query[i])})
    IN IF 2 * proper_nouns > word_count
       THEN [base EXCEPT !.bm25 = @ + 1, !.dense = @ - 1]
       ELSE base

\* HybridSearchAgent.dynamic_alpha_adjustment(query), weights in tenths
DynamicAlphaAdjustment(query) ==
    LET word_count == Len(query)
        base == IF word_count <= 3 THEN [bm25 |-> 4, dense |-> 2, splade |-> 4]
                ELSE IF word_count >= 10 THEN [bm25 |-> 2, dense |-> 5, splade |-> 3]
                ELSE [bm25 |-> 3, dense |-> 4, splade |-> 3]
        proper_nouns == Cardinality({i \in DOMAIN query : IsUpperWord(query[i])})
    IN IF 2 * proper_nouns >= word_count
       THEN [base EXCEPT !.bm25 = @ + 1, !.dense = @ - 1]
       ELSE base

\* mutant: the call stores the weights in self.weights, as search does
DynamicAlphaCallStoring(self_weights, query) ==
    [weights |-> DynamicAlphaAdjustment(query),
     returned |-> DynamicAlphaAdjustment(query)]

\* agent.dynamic_alpha_adjustment(query) as a call on an agent whose
\* self.weights are self_weights: the self.weights it leaves and the dict
\* it returns
DynamicAlphaCall(self_weights, query) ==
    [weights |-> self_weights, returned |-> DynamicAlphaAdjustment(query)]

\* the fusion step of search, on the three per-method lists
Fuse(w, result_lists, fusion_method) ==
    IF fusion_method = "rrf"
    THEN ReciprocalRankFusion(result_lists, RRFConstant).fused
    ELSE WeightedFusion(w, result_lists).fused

\* mutant: the final slice is left out
SearchTruncateAll(fused_results, top_k) == fused_results

\* final_results = fused_results[:top_k]
SearchTruncate(fused_results, top_k) == Slice(fused_results, top_k)

\* HybridSearchAgent.search(query, top_k, fusion_method), the whole call:
\* the weights it leaves in self.weights and what it returns or raises
HybridSearch(b, d, sp, h, ls, query, top_k, fusion_method) ==
    LET w == DynamicAlphaAdjustment(query)
        bm25_results == BM25Search(b, h, ls, query, top_k * 2)
        dense_results == DenseSearch(d, h, ls, query, top_k * 2)
        splade_results == SpladeSearch(sp, h, ls, query, top_k * 2)
    IN IF bm25_results.raised # "none"
       THEN [weights |-> w, raised |-> bm25_results.raised, results |-> <<>>]
       ELSE [weights |-> w, raised |-> "none",
             results |-> SearchTruncate(
                 Fuse(w, <<bm25_results.results, dense_results, splade_results>>,
                      fusion_method), top_k)]

PyNone == "<None>"

\* metadata.get(key)
MetadataGet(metadata, key) == IF key \in DOMAIN metadata THEN metadata[key] ELSE PyNone

\* mutant: any() in place of all()
FilterMatchAny(result, filters) ==
    \E key \in DOMAIN filters : MetadataGet(result.metadata, key) = filters[key]

\* all(result.metadata.get(key) == value for key, value in filters.items())
FilterMatch(result, filters) ==
    \A key \in DOMAIN filters : MetadataGet(result.metadata, key) = filters[key]

\* the filtering step: "if filters:" is false for None and for {}
FilterResults(results, filters) ==
    IF filters.some /\ DOMAIN filters.v # {}
    THEN SelectSeq(results, LAMBDA r : FilterMatch(r, filters.v))
    ELSE results

\* mutant: the search fetches top_k results, not top_k * 3
SearchWithMetadataNoOverfetch(b, d, sp, h, ls, query, filters, top_k) ==
    LET found == HybridSearch(b, d, sp, h, ls, query, top_k, "rrf")
    IN [found EXCEPT !.results = Slice(FilterResults(found.results, filters), top_k)]

\* HybridSearchAgent.search_with_metadata(query, filters, top_k)
SearchWithMetadataOp(b, d, sp, h, ls, query, filters, top_k) ==
    LET found == HybridSearch(b, d, sp, h, ls, query, top_k * 3, "rrf")
    IN [found EXCEPT !.results = Slice(FilterResults(found.results, filters), top_k)]

(***************************************************************************)
(* The agent used by one caller, call after call                           *)
(***************************************************************************)
Queries ==
    { <<>>, <<"Python">>, <<"web", "code">>, <<"python", "py", "Node.js", "Web.">> }

FilterValues ==
    { None, Some(EmptyMap), Some([file_type |-> "python"]),
      Some([file_type |-> "javascript"]), Some([file_type |-> PyNone]),
      Some([file_type |-> "python", author |-> "john"]) }

\* the caller holds no result
NoCall == [op |-> "none", raised |-> "none"]

AgentInit ==
    /\ docs = [r \in DocRefs |-> NewDocument(r)]
    /\ \E c1 \in Corpora, c2 \in SecondCorpora :
          lists = [l \in ListRefs |-> IF l = 1 THEN c1 ELSE IF l = 2 THEN c2 ELSE <<>>]
    /\ bm25 = BM25Init
    /\ dense = [documents |-> 0]
    /\ splade = SpladeInit
    /\ weights = WeightsInit

Init ==
    /\ AgentInit
    /\ call = NoCall
    /\ fz = Idle /\ al = Idle /\ rk = Idle /\ th = Idle

\* HybridSearchAgent.build_index(documents)
BuildIndex(l) ==
    LET b == BM25BuildIndex(bm25, docs, lists, l)
        s == SpladeBuildIndex(docs, lists, l)
    IN /\ call = NoCall
       /\ bm25' = b.self
       /\ IF b.raised = "none"
          THEN /\ dense' = [documents |-> l]
               /\ splade' = s.self
               /\ docs' = s.docs
          ELSE UNCHANGED <<dense, splade, docs>>
       /\ call' = [op |-> "build_index", list |-> l, raised |-> b.raised]
       /\ UNCHANGED <<lists, weights, fz, al, rk, th>>

Search(query, top_k, fusion_method) ==
    LET r == HybridSearch(bm25, dense, splade, docs, lists, query, top_k, fusion_method)
    IN /\ call = NoCall
       /\ weights' = r.weights
       /\ call' = [op |-> "search", query |-> query, top_k |-> top_k,
                   fusion_method |-> fusion_method,
                   raised |-> r.raised, results |-> r.results]
       /\ UNCHANGED <<docs, lists, bm25, dense, splade, fz, al, rk, th>>

SearchWithMetadata(query, filters, top_k) ==
    LET r == SearchWithMetadataOp(bm25, dense, splade, docs, lists, query, filters, top_k)
    IN /\ call = NoCall
       /\ weights' = r.weights
       /\ call' = [op |-> "search_with_metadata", query |-> query, top_k |-> top_k,
                   filters |-> filters,
                   raised |-> r.raised, results |-> r.results]
       /\ UNCHANGED <<docs, lists, bm25, dense, splade, fz, al, rk, th>>

\* the caller is done with what the call returned
Return ==
    /\ call # NoCall
    /\ call' = NoCall
    /\ UNCHANGED <<docs, lists, bm25, dense, splade, weights, fz, al, rk, th>>

Next ==
    \/ Return
    \/ \E l \in CallerLists : BuildIndex(l)
    \/ \E q \in Queries, k \in 1..MaxTopK, m \in {"rrf", "weighted"} : Search(q, k, m)
    \/ \E q \in Queries, f \in FilterValues, k \in 1..MaxTopK : SearchWithMetadata(q, f, k)

Spec == Init /\ [][Next]_vars


(***************************************************************************)
(* Properties of the agent used call after call (Spec)                     *)
(***************************************************************************)
\* the corpus the three indexes currently hold
Indexed == lists[bm25.documents]

IsSearchCall == call.op \in {"search", "search_with_metadata"}

\* C1: search(query, top_k, fusion_method) with a positive top_k returns a
\* list (it does not raise) of at most top_k results, for both fusion
\* methods, on a built and on a never built agent.
C1_SearchAtMostTopK ==
    call.op = "search" => call.raised = "none" /\ Len(call.results) <= call.top_k

\* a weighted search over a corpus larger than top_k came back full
C1_Witness ==
    /\ call.op = "search"
    /\ call.fusion_method = "weighted"
    /\ Len(Indexed) > call.top_k
    /\ Len(call.results) = call.top_k

\* C4: with a non-empty filters mapping every result of
\* search_with_metadata carries the filter value on every filter key; a
\* result that lacks a key reads as None on it, so it is returned only by
\* a filter whose value for that key is None.
C4_FilteredResultsMatch ==
    (call.op = "search_with_metadata" /\ call.filters.some /\ DOMAIN call.filters.v # {})
    => \A i \in DOMAIN call.results : \A key \in DOMAIN call.filters.v :
          LET md == call.results[i].metadata
              value == call.filters.v[key]
          IN IF key \in DOMAIN md THEN md[key] = value ELSE value = PyNone

\* a python filter over a corpus that also holds a javascript document and
\* a document without file_type returned something
C4_Witness ==
    /\ call.op = "search_with_metadata"
    /\ call.filters = Some([file_type |-> "python"])
    /\ {2, 3} \subseteq {Indexed[i] : i \in DOMAIN Indexed}
    /\ Len(call.results) >= 1

\* C8: build_index raises nothing, also for an empty document list; while
\* the indexed corpus is empty every search returns the empty list without
\* raising; and an index whose average length is 0 scores every document
\* 0 with normalized length 1.0, no division by zero.
C8_EmptyCorpusIsHarmless ==
    /\ call.op = "build_index" => call.raised = "none"
    /\ (IsSearchCall /\ Indexed = <<>>) => call.raised = "none" /\ call.results = <<>>
    /\ bm25.avg_num = 0 =>
          /\ IsSearchCall => call.raised = "none"
          /\ \A q \in Queries :
                LET found == BM25Search(bm25, docs, lists, q, NDocs)
                IN /\ found.raised = "none"
                   /\ \A i \in DOMAIN found.results : found.results[i].score = 0
          /\ \A n \in 0..NDocs :
                LET nl == NormalizedLength(n, bm25.avg_num, bm25.avg_den)
                IN ~nl.raised /\ nl.num = nl.den

\* a search on an agent rebuilt with the caller's empty list after a
\* non-empty corpus had been indexed
C8_Witness ==
    /\ call.op = "search"
    /\ bm25.documents # 0
    /\ Indexed = <<>>
    /\ DOMAIN bm25.idf # {}
    /\ call.results = <<>>


\* what search(query, 3 * top_k) returns on the agent as it is
OverfetchedSearch ==
    HybridSearch(bm25, dense, splade, docs, lists,
                 call.query, 3 * call.top_k, "rrf").results

\* the result's metadata equals the filter value on every filter key
EqualOnEveryKey(result) ==
    call.filters.some =>
        \A key \in DOMAIN call.filters.v :
            /\ key \in DOMAIN result.metadata \/ call.filters.v[key] = PyNone
            /\ key \in DOMAIN result.metadata =>
                   result.metadata[key] = call.filters.v[key]

\* C16: search_with_metadata(query, filters, top_k) returns exactly the
\* first top_k elements, in order, of the sub-list of search(query,
\* 3 * top_k) whose metadata equals the filter value on every filter key.
C16_FilteredPrefixOfOverfetch ==
    call.op = "search_with_metadata" =>
        call.results = Slice(SelectSeq(OverfetchedSearch, EqualOnEveryKey), call.top_k)

\* a filtered search that dropped a result of the wider search and kept
\* another that the search for top_k alone would not have returned
C16_Witness ==
    /\ call.op = "search_with_metadata"
    /\ call.filters.some
    /\ call.results # <<>>
    /\ Len(SelectSeq(OverfetchedSearch, EqualOnEveryKey)) < Len(OverfetchedSearch)
    /\ \E i \in DOMAIN OverfetchedSearch :
          /\ i > call.top_k
          /\ OverfetchedSearch[i].doc_id = call.results[1].doc_id


\* the documents with their content encoded under the current vocabulary
Reencoded ==
    [r \in DOMAIN docs |->
        [docs[r] EXCEPT !.sparse_vector =
            Some(EncodeToSparseVector(splade.vocab, docs[r].content))]]

\* C17: after any sequence of build_index calls the SPLADE search scores
\* every document with the sparse dot product of the query's encoding and
\* the encoding of the document's content under the vocabulary of the
\* latest build_index: every cached sparse vector is keyed by the current
\* vocabulary's term ids.
C17_SparseVectorsOfCurrentVocab ==
    splade.documents # 0 =>
        /\ \A i \in DOMAIN lists[splade.documents] :
              docs[lists[splade.documents][i]].sparse_vector
                  = Reencoded[lists[splade.documents][i]].sparse_vector
        /\ \A q \in Queries :
              SpladeSearch(splade, docs, lists, q, NDocs)
                  = SpladeSearch(splade, Reencoded, lists, q, NDocs)

\* the three per-method lists the search the caller holds was fused from
MethodLists ==
    <<BM25Search(bm25, docs, lists, call.query, call.top_k * 2).results,
      DenseSearch(dense, docs, lists, call.query, call.top_k * 2),
      SpladeSearch(splade, docs, lists, call.query, call.top_k * 2)>>

\* the raw score of doc_id in method m's list, 0 when the list lacks it
RawScore(m, doc_id) ==
    LET L == MethodLists[m]
    IN IF \E p \in DOMAIN L : L[p].doc_id = doc_id
       THEN L[CHOOSE p \in DOMAIN L : L[p].doc_id = doc_id].score
       ELSE 0

\* sum over the methods of weight[method] * raw score, weights in tenths
WeightedSum(w, doc_id) ==
    SumSeq([m \in DOMAIN Methods |-> DivTrunc(RawScore(m, doc_id) * w[Methods[m]], 10)])

\* C22: weighted_fusion gives each document the score
\* weight[bm25]*s_bm25 + weight[dense]*s_dense + weight[splade]*s_splade,
\* s_m the document's raw score in method m's list (0 when absent) and the
\* weights those dynamic_alpha_adjustment returns for the query of the
\* current search; the output is ordered by that score non-increasing with
\* 1-based ranks.
C22_WeightedScores ==
    (call.op = "search" /\ call.fusion_method = "weighted" /\ call.raised = "none") =>
        LET w == DynamicAlphaAdjustment(call.query)
        IN /\ weights = w
           /\ \A i \in DOMAIN call.results :
                 /\ call.results[i].score = WeightedSum(w, call.results[i].doc_id)
                 /\ call.results[i].rank = i
                 /\ i > 1 => call.results[i - 1].score >= call.results[i].score
           /\ Len(call.results) = Min(call.top_k, Len(Indexed))
           /\ \A i \in DOMAIN call.results : \A j \in DOMAIN call.results :
                 i # j => call.results[i].doc_id # call.results[j].doc_id
           /\ \A r \in DOMAIN docs :
                 (\E p \in DOMAIN Indexed : Indexed[p] = r)
                 /\ (\A i \in DOMAIN call.results : call.results[i].doc_id # docs[r].doc_id)
                     => \A i \in DOMAIN call.results :
                           call.results[i].score >= WeightedSum(w, docs[r].doc_id)

\* a weighted search returned two documents with different positive
\* scores, under weights that are not the agent's initial ones
C22_Witness ==
    /\ call.op = "search" /\ call.fusion_method = "weighted" /\ call.raised = "none"
    /\ weights # WeightsInit
    /\ Len(call.results) = 2
    /\ call.results[1].score > call.results[2].score
    /\ call.results[2].score > 0

\* C28: search_with_metadata(query, filters, top_k) with filters None or
\* empty returns the same list (doc_ids, order, scores, ranks) as
\* search(query, top_k) on the same agent and corpus.
C28_NoFilterIsSearch ==
    (call.op = "search_with_metadata" /\ call.raised = "none"
       /\ (call.filters = None \/ call.filters = Some(EmptyMap))) =>
        call.results = HybridSearch(bm25, dense, splade, docs, lists,
                                    call.query, call.top_k, "rrf").results

\* the terms occurring in the documents BM25 currently indexes
CurrentTerms == UNION {TermSet(tokenize(docs[Indexed[i]].content)) : i \in DOMAIN Indexed}

\* C30: after any sequence of BM25Searcher.build_index calls the derived
\* statistics describe exactly the latest corpus: idf and term_doc_freq have
\* the same key set, the terms occurring in the current documents, with no
\* entry left from a corpus indexed before, and doc_lengths has one entry
\* per current document.
C30_StatisticsOfLatestCorpus ==
    /\ DOMAIN bm25.idf = DOMAIN bm25.term_doc_freq
    /\ DOMAIN bm25.idf = CurrentTerms
    /\ Len(bm25.doc_lengths) = Len(Indexed)


(***************************************************************************)
(* A caller fusing result lists it holds (SpecFusion)                      *)
(***************************************************************************)
MaxListLen == 2      \* longest result list handed to a fusion method
MaxFuseCalls == 2    \* fusion calls the caller makes on the same lists

RECURSIVE Arrangements(_, _)
\* the sequences of n distinct elements of S
Arrangements(S, n) ==
    IF n = 0 THEN {<<>>}
    ELSE UNION {{Append(s, x) : x \in S \ {s[i] : i \in DOMAIN s}} :
                s \in Arrangements(S, n - 1)}

FusionIds == {DocIds[1], DocIds[2], DocIds[3]}

\* the score the caller's lists carry at position p of list l
InputScore(l, p) == ScoreUnit \div (l + p - 1)

\* the result lists of at most m results a caller can hold for method l:
\* distinct documents, each ranked by its position or tied with the one
\* before it
ResultLists(l, m) ==
    UNION {{[p \in 1..n |->
               [doc_id |-> ids[p], score |-> InputScore(l, p), rank |-> ranks[p],
                content |-> <<>>, metadata |-> EmptyMap, method |-> Methods[l]]] :
            ids \in Arrangements(FusionIds, n),
            ranks \in {f \in [1..n -> 1..n] :
                         \A p \in 1..n : f[p] = p \/ (p > 1 /\ f[p] = p - 1)}} :
           n \in 0..m}

InitFusion ==
    /\ docs = Idle /\ lists = Idle /\ bm25 = Idle /\ dense = Idle /\ splade = Idle
    /\ weights = WeightsInit
    /\ call = Idle /\ al = Idle /\ rk = Idle /\ th = Idle
    /\ \E l1 \in ResultLists(1, MaxListLen), l2 \in ResultLists(2, MaxListLen),
          l3 \in ResultLists(3, 1) :
          fz = [given |-> <<l1, l2, l3>>, lists |-> <<l1, l2, l3>>, calls |-> <<>>]

\* what the caller keeps of a returned list
Returned(method, fused) ==
    [method |-> method,
     order |-> [i \in DOMAIN fused |-> fused[i].doc_id],
     scores |-> [i \in DOMAIN fused |-> fused[i].score],
     ranks |-> [i \in DOMAIN fused |-> fused[i].rank],
     tags |-> [i \in DOMAIN fused |-> fused[i].method]]

\* agent.reciprocal_rank_fusion(lists) on the lists the caller holds
FuseRRF ==
    LET r == ReciprocalRankFusion(fz.lists, RRFConstant)
    IN /\ Len(fz.calls) < MaxFuseCalls
       /\ fz' = [fz EXCEPT !.lists = r.lists,
                           !.calls = Append(@, Returned("rrf", r.fused))]
       /\ UNCHANGED <<docs, lists, bm25, dense, splade, weights, call, al, rk, th>>

\* agent.weighted_fusion(lists) on the lists the caller holds
FuseWeighted ==
    LET r == WeightedFusion(weights, fz.lists)
    IN /\ Len(fz.calls) < MaxFuseCalls
       /\ fz' = [fz EXCEPT !.lists = r.lists,
                           !.calls = Append(@, Returned("weighted", r.fused))]
       /\ UNCHANGED <<docs, lists, bm25, dense, splade, weights, call, al, rk, th>>

NextFusion == FuseRRF \/ FuseWeighted

SpecFusion == InitFusion /\ [][NextFusion]_vars

\* the rank doc_id has in the given list l, 0 when the list lacks it
GivenRank(l, id) ==
    LET L == fz.given[l]
    IN IF \E p \in DOMAIN L : L[p].doc_id = id
       THEN L[CHOOSE p \in DOMAIN L : L[p].doc_id = id].rank
       ELSE 0

ListsHolding(id) == {l \in 1..3 : GivenRank(l, id) > 0}

PlaceOf(ret, id) == CHOOSE i \in DOMAIN ret.order : ret.order[i] = id

\* C2: reciprocal_rank_fusion with k = 60 scores each document with the
\* sum, over the lists that hold it, of 1/(60 + its rank there); a document
\* ranked 1st in all three lists scores exactly 3/61, one held by a single
\* list at rank 1 scores exactly 1/61, and the former comes strictly
\* before the latter in the fused list.
C2_RRFScores ==
    (Len(fz.calls) >= 1 /\ fz.calls[1].method = "rrf") =>
        LET ret == fz.calls[1]
            ids == {ret.order[i] : i \in DOMAIN ret.order}
            firstInAll(id) == \A l \in 1..3 : GivenRank(l, id) = 1
            firstInOne(id) ==
                Cardinality(ListsHolding(id)) = 1
                /\ \A l \in ListsHolding(id) : GivenRank(l, id) = 1
        IN /\ ids = {id \in FusionIds : ListsHolding(id) # {}}
           /\ \A i \in DOMAIN ret.order :
                 ret.scores[i] =
                     SumOver(ListsHolding(ret.order[i]),
                             [l \in 1..3 |-> ScoreUnit \div (60 + GivenRank(l, ret.order[i]))])
           /\ \A i \in DOMAIN ret.order :
                 /\ firstInAll(ret.order[i]) => 61 * ret.scores[i] = 3 * ScoreUnit
                 /\ firstInOne(ret.order[i]) => 61 * ret.scores[i] = ScoreUnit
           /\ \A a, b \in ids :
                 firstInAll(a) /\ firstInOne(b) => PlaceOf(ret, a) < PlaceOf(ret, b)

\* one fusion saw a document first in all three lists and another one
\* first in a single list
C2_Witness ==
    /\ Len(fz.calls) >= 1
    /\ fz.calls[1].method = "rrf"
    /\ \E a, b \in FusionIds :
          /\ \A l \in 1..3 : GivenRank(l, a) = 1
          /\ Cardinality(ListsHolding(b)) = 1
          /\ \A l \in ListsHolding(b) : GivenRank(l, b) = 1
          /\ PlaceOf(fz.calls[1], a) = 1

\* C3: fusing the same three result lists twice in succession with the
\* same method yields the same order of doc_ids both times.
C3_RefuseSameOrder ==
    \A i \in DOMAIN fz.calls : \A j \in DOMAIN fz.calls :
        (j = i + 1 /\ fz.calls[i].method = fz.calls[j].method)
            => fz.calls[i].order = fz.calls[j].order

\* C29: reciprocal_rank_fusion and weighted_fusion leave their input result
\* lists unchanged: after the call every SearchResult in every input list
\* has the score, rank and method it had before the call.
C29_FusionKeepsInputs ==
    \A l \in DOMAIN fz.given : \A p \in DOMAIN fz.given[l] :
        /\ fz.lists[l][p].score = fz.given[l][p].score
        /\ fz.lists[l][p].rank = fz.given[l][p].rank
        /\ fz.lists[l][p].method = fz.given[l][p].method


(***************************************************************************)
(* A caller asking for the weights of a short and a long query (SpecAlpha) *)
(***************************************************************************)
\* the words of the queries: the same word in lower case and capitalised
AlphaWords == {"python", "Python"}

InitAlpha ==
    /\ docs = Idle /\ lists = Idle /\ bm25 = Idle /\ dense = Idle /\ splade = Idle
    /\ weights = WeightsInit
    /\ call = Idle /\ fz = Idle /\ rk = Idle /\ th = Idle
    /\ \E short \in [1..2 -> AlphaWords], long \in [1..15 -> AlphaWords] :
          al = [short |-> short, long |-> long,
                short_weights |-> None, long_weights |-> None]

\* agent.dynamic_alpha_adjustment(short)
AdjustShort ==
    /\ al.short_weights = None
    /\ al' = [al EXCEPT !.short_weights = Some(DynamicAlphaAdjustment(al.short))]
    /\ UNCHANGED <<docs, lists, bm25, dense, splade, weights, call, fz, rk, th>>

\* agent.dynamic_alpha_adjustment(long)
AdjustLong ==
    /\ al.long_weights = None
    /\ al' = [al EXCEPT !.long_weights = Some(DynamicAlphaAdjustment(al.long))]
    /\ UNCHANGED <<docs, lists, bm25, dense, splade, weights, call, fz, rk, th>>

NextAlpha == AdjustShort \/ AdjustLong

SpecAlpha == InitAlpha /\ [][NextAlpha]_vars

\* C5: a 2-token query and a 15-token query get different weights; the
\* short one's bm25 + splade exceeds its dense weight and the long one's
\* dense weight exceeds its bm25 weight, whatever the capitalisation.
C5_ShortAndLongWeights ==
    /\ al.short_weights.some =>
          al.short_weights.v.bm25 + al.short_weights.v.splade > al.short_weights.v.dense
    /\ al.long_weights.some =>
          al.long_weights.v.dense > al.long_weights.v.bm25
    /\ (al.short_weights.some /\ al.long_weights.some) =>
          al.short_weights.v # al.long_weights.v

\* both queries were adjusted, the long one mostly capitalised and the
\* short one not
C5_Witness ==
    /\ al.short_weights.some /\ al.long_weights.some
    /\ \A i \in DOMAIN al.long : al.long[i] = "Python"
    /\ \A i \in DOMAIN al.short : al.short[i] = "python"
    /\ al.long_weights.v = [bm25 |-> 3, dense |-> 4, splade |-> 3]
    /\ al.short_weights.v = [bm25 |-> 4, dense |-> 2, splade |-> 4]


(***************************************************************************)
(* 15_reranking_agent.py: the rerankers and the reranking agent            *)
(***************************************************************************)
MaxStageK == 3       \* largest top_k handed to a reranker

\* w.lower()
LowerWord(w) ==
    CASE w = "Python" -> "python"
      [] w = "Web." -> "web."
      [] w = "Node.js" -> "node.js"
      [] OTHER -> w

\* set(text.lower().split())
LowerSet(text) == {LowerWord(text[i]) : i \in DOMAIN text}

\* dict.get(key, default)
DictGet(d, key, default) == IF key \in DOMAIN d THEN d[key] ELSE default

\* CrossEncoderReranker._simple_scoring(query, content): Jaccard similarity
SimpleScoring(query, content) ==
    LET query_tokens == LowerSet(query)
        content_tokens == LowerSet(content)
        intersection == query_tokens \cap content_tokens
        union == query_tokens \cup content_tokens
    IN IF union = {} THEN 0
       ELSE (Cardinality(intersection) * ScoreUnit) \div Cardinality(union)

\* the RankedResult objects built from the sorted (doc, score) pairs
RankedResults(ranked_docs) ==
    [i \in DOMAIN ranked_docs |->
        [doc_id |-> ranked_docs[i].doc.doc_id,
         content |-> ranked_docs[i].doc.content,
         original_rank |-> DictGet(ranked_docs[i].doc, "rank", 0),
         original_score |-> DictGet(ranked_docs[i].doc, "score", 0),
         reranked_score |-> ranked_docs[i].score,
         reranked_rank |-> i,
         metadata |-> DictGet(ranked_docs[i].doc, "metadata", EmptyMap)]]

\* "if top_k:" -- None and 0 are both false
TopKGiven(top_k) == top_k # None /\ top_k.v # 0

\* CrossEncoderReranker.rerank(query, documents, top_k), top_k optional
CrossEncoderRerank(query, documents, top_k) ==
    LET pairs == [i \in DOMAIN documents |->
                    [doc |-> documents[i],
                     score |-> SimpleScoring(query, documents[i].content)]]
        results == RankedResults(SortDesc(pairs))
    IN IF TopKGiven(top_k) THEN Slice(results, top_k.v) ELSE results

\* LLMReranker.rerank(query, documents, top_k)
LLMRerank(query, documents, top_k) ==
    LET scored_docs == [i \in DOMAIN documents |->
                          [doc |-> documents[i],
                           score |-> DictGet(documents[i], "score", 0)]]
    IN RankedResults(Slice(SortDesc(scored_docs), top_k))

\* the candidates two_stage_reranking hands to the second stage: the first
\* stage's results as dicts
Stage1Docs(query, documents, stage1_top_k) ==
    LET stage1_results == CrossEncoderRerank(query, documents, Some(stage1_top_k))
    IN [i \in DOMAIN stage1_results |->
           [doc_id |-> stage1_results[i].doc_id,
            content |-> stage1_results[i].content,
            score |-> stage1_results[i].reranked_score,
            rank |-> stage1_results[i].reranked_rank,
            metadata |-> stage1_results[i].metadata]]

\* RerankingAgent.two_stage_reranking(query, documents, stage1_top_k,
\* stage2_top_k)
TwoStageReranking(query, documents, stage1_top_k, stage2_top_k) ==
    LLMRerank(query, Stage1Docs(query, documents, stage1_top_k), stage2_top_k)

\* CohereReranker.rerank(query, documents, top_k)
CohereRerank(query, documents, top_k) ==
    LET scored_docs == [i \in DOMAIN documents |->
                          [doc |-> documents[i],
                           score |-> DictGet(documents[i], "score", 0)]]
    IN RankedResults(Slice(SortDesc(scored_docs), top_k))

\* RerankingMethod
RerankingMethods == {"cross_encoder", "llm_reranker", "colbert", "cohere_rerank"}

\* mutant: the fallback for a missing Cohere key runs the LLM reranker
CohereFallbackToLLM(query, documents, top_k) == LLMRerank(query, documents, top_k)

\* the branch taken when self.cohere_reranker is None
CohereFallback(query, documents, top_k) ==
    CrossEncoderRerank(query, documents, Some(top_k))

\* RerankingAgent.rerank(query, documents, method, top_k) on an agent whose
\* cohere_reranker is None or a CohereReranker
AgentRerank(cohere_reranker, query, documents, method, top_k) ==
    IF method = "cross_encoder"
    THEN CrossEncoderRerank(query, documents, Some(top_k))
    ELSE IF method = "llm_reranker"
    THEN LLMRerank(query, documents, top_k)
    ELSE IF method = "cohere_rerank"
    THEN IF cohere_reranker # None
         THEN CohereRerank(query, documents, top_k)
         ELSE CohereFallback(query, documents, top_k)
    ELSE CrossEncoderRerank(query, documents, Some(top_k))

(***************************************************************************)
(* A caller reranking a list of search results (SpecRerank)                *)
(***************************************************************************)
\* the dict the caller passes for document r found at place p; the first
\* two documents carry the same score, the third comes without score and
\* rank
SearchHit(r, p) ==
    IF r = 3
    THEN [doc_id |-> DocIds[r], content |-> NewDocument(r).content]
    ELSE [doc_id |-> DocIds[r], content |-> NewDocument(r).content,
          score |-> ScoreUnit \div ((r + 1) \div 2 + 1), rank |-> p,
          metadata |-> NewDocument(r).metadata]

\* the document lists a caller can pass: distinct documents in any order
RerankInputs ==
    UNION {{[p \in 1..n |-> SearchHit(refs[p], p)] : refs \in Arrangements(DocRefs, n)} :
           n \in 0..NDocs}

InitRerank ==
    /\ docs = Idle /\ lists = Idle /\ bm25 = Idle /\ dense = Idle /\ splade = Idle
    /\ weights = WeightsInit
    /\ call = Idle /\ fz = Idle /\ al = Idle /\ th = Idle
    /\ \E documents \in RerankInputs, cohere_reranker \in {None, Some("rerank-english-v2.0")} :
          rk = [documents |-> documents, cohere_reranker |-> cohere_reranker,
                op |-> "none"]

\* agent.two_stage_reranking(query, documents, stage1_top_k, stage2_top_k)
TwoStage(query, stage1_top_k, stage2_top_k) ==
    /\ rk.op = "none"
    /\ rk' = [documents |-> rk.documents, cohere_reranker |-> rk.cohere_reranker,
              op |-> "two_stage_reranking", query |-> query,
              stage1_top_k |-> stage1_top_k, stage2_top_k |-> stage2_top_k,
              results |-> TwoStageReranking(query, rk.documents,
                                            stage1_top_k, stage2_top_k)]
    /\ UNCHANGED <<docs, lists, bm25, dense, splade, weights, call, fz, al, th>>

\* the caller has taken the results
RerankReturn ==
    /\ rk.op # "none"
    /\ rk' = [documents |-> rk.documents, cohere_reranker |-> rk.cohere_reranker,
              op |-> "none"]
    /\ UNCHANGED <<docs, lists, bm25, dense, splade, weights, call, fz, al, th>>

\* agent.rerank(query, documents, method, top_k)
Rerank(query, method, top_k) ==
    /\ rk.op = "none"
    /\ rk' = [documents |-> rk.documents, cohere_reranker |-> rk.cohere_reranker,
              op |-> "rerank", query |-> query, method |-> method, top_k |-> top_k,
              results |-> AgentRerank(rk.cohere_reranker, query, rk.documents,
                                      method, top_k)]
    /\ UNCHANGED <<docs, lists, bm25, dense, splade, weights, call, fz, al, th>>

NextRerank ==
    \/ \E query \in Queries, stage1_top_k \in 0..MaxStageK, stage2_top_k \in 0..MaxStageK :
          TwoStage(query, stage1_top_k, stage2_top_k)
    \/ \E query \in Queries, method \in RerankingMethods, top_k \in 0..MaxStageK :
          Rerank(query, method, top_k)
    \/ RerankReturn

SpecRerank == InitRerank /\ [][NextRerank]_vars

\* C6: for every document list and every stage1_top_k and stage2_top_k,
\* 0 included, the list two_stage_reranking returns is at most
\* stage2_top_k long and at most stage1_top_k long.
C6_TwoStageLength ==
    rk.op = "two_stage_reranking" =>
        /\ Len(rk.results) <= rk.stage2_top_k
        /\ Len(rk.results) <= rk.stage1_top_k

\* the rerank call asked for Cohere on an agent without a Cohere key
Degraded == rk.op = "rerank" /\ rk.method = "cohere_rerank" /\ rk.cohere_reranker = None

\* C12: rerank with method COHERE_RERANK on an agent configured without a
\* cohere_api_key returns exactly the list that rerank with method
\* CROSS_ENCODER returns for the same query, documents and top_k.
C12_CohereFallsBackToCrossEncoder ==
    Degraded =>
        rk.results = AgentRerank(rk.cohere_reranker, rk.query, rk.documents,
                                 "cross_encoder", rk.top_k)

\* a degraded call whose result differs from what the Cohere reranker
\* would have returned
C12_Witness ==
    /\ Degraded
    /\ Len(rk.results) >= 2
    /\ rk.results # CohereRerank(rk.query, rk.documents, rk.top_k)

\* the strategy a result says it was produced by
StrategyFlag(result) ==
    IF "strategy" \in DOMAIN result THEN result.strategy ELSE PyNone

\* C13: when rerank degrades to the fallback strategy, every returned
\* result is flagged with the strategy that actually ran.
C13_DegradedResultsFlagged ==
    Degraded =>
        \A i \in DOMAIN rk.results : StrategyFlag(rk.results[i]) = "cross_encoder"

\* C14: for every strategy and every top_k >= 0, rerank returns
\* min(top_k, number of documents) results, so never more than top_k and
\* the same number for every strategy.
C14_RerankLength ==
    rk.op = "rerank" => Len(rk.results) = Min(rk.top_k, Len(rk.documents))

\* where the caller's list holds the document doc_id
InputPlace(doc_id) ==
    CHOOSE p \in DOMAIN rk.documents : rk.documents[p].doc_id = doc_id

\* C15: for every strategy the returned list is ordered by reranked_score
\* non-increasing, results of equal score keep their input order, and the
\* i-th result has reranked_rank = i.
C15_RerankOrder ==
    rk.op = "rerank" =>
        /\ \A i \in DOMAIN rk.results : rk.results[i].reranked_rank = i
        /\ \A i, j \in DOMAIN rk.results :
              i < j =>
                 /\ rk.results[i].reranked_score >= rk.results[j].reranked_score
                 /\ rk.results[i].reranked_score = rk.results[j].reranked_score
                       => InputPlace(rk.results[i].doc_id) < InputPlace(rk.results[j].doc_id)

\* a rerank by the LLM strategy that returned two results of equal score
\* and one of lower score that came first in the input
C15_Witness ==
    /\ rk.op = "rerank" /\ rk.method = "llm_reranker"
    /\ Len(rk.results) = 3
    /\ rk.results[1].reranked_score = rk.results[2].reranked_score
    /\ rk.results[2].reranked_score > rk.results[3].reranked_score
    /\ InputPlace(rk.results[3].doc_id) = 1

\* the dict of the caller's list a result was made from
InputOf(result) == rk.documents[InputPlace(result.doc_id)]

\* C25: every RankedResult returned by rerank and by two_stage_reranking
\* carries as original_rank and original_score the rank and score the
\* document had in the caller's input list, not values produced by an
\* intermediate rerank stage.
C25_OriginalRankAndScore ==
    rk.op \in {"rerank", "two_stage_reranking"} =>
        \A i \in DOMAIN rk.results :
            /\ rk.results[i].original_rank = DictGet(InputOf(rk.results[i]), "rank", 0)
            /\ rk.results[i].original_score = DictGet(InputOf(rk.results[i]), "score", 0)

\* the cross-encoder ordering of the caller's whole list
CrossEncoderOrdering == CrossEncoderRerank(rk.query, rk.documents, None)

\* C26: in two_stage_reranking the second stage runs only on the set the
\* first stage reduced: every document of the final output is among the
\* first stage1_top_k documents of the cross-encoder ordering of the input,
\* and the second stage is given at most stage1_top_k candidates.
C26_SecondStageOnReducedSet ==
    rk.op = "two_stage_reranking" =>
        /\ Len(Stage1Docs(rk.query, rk.documents, rk.stage1_top_k)) <= rk.stage1_top_k
        /\ \A i \in DOMAIN rk.results :
              \E p \in 1..Min(rk.stage1_top_k, Len(CrossEncoderOrdering)) :
                  CrossEncoderOrdering[p].doc_id = rk.results[i].doc_id


(***************************************************************************)
(* A BM25Searcher over three documents that differ in how often they hold  *)
(* the query term (SpecBM25)                                               *)
(***************************************************************************)
MaxFiller == 6       \* most tokens a document holds beside the query term

RECURSIVE Repeat(_, _)
\* n copies of the word w
Repeat(w, n) == IF n = 0 THEN <<>> ELSE <<w>> \o Repeat(w, n - 1)

\* a document holding the term "python" tf times and n other tokens
TermDocument(r, tf, n) ==
    [doc_id |-> DocIds[r], content |-> Repeat("python", tf) \o Repeat("code", n),
     metadata |-> EmptyMap, embedding |-> None, sparse_vector |-> None]

InitBM25 ==
    /\ dense = Idle /\ splade = Idle /\ weights = Idle
    /\ fz = Idle /\ al = Idle /\ rk = Idle /\ th = Idle
    /\ \E x \in 0..MaxFiller, y \in 0..MaxFiller, z \in 0..MaxFiller :
          docs = <<TermDocument(1, 5, x), TermDocument(2, 1, y), TermDocument(3, 0, z)>>
    /\ \E order \in Arrangements({1, 2, 3}, 3) :
          lists = (0 :> <<>>) @@ (1 :> order)
    /\ bm25 = BM25Init
    /\ call = NoCall

\* searcher.build_index(documents)
BM25Build ==
    /\ bm25.documents = 0
    /\ bm25' = BM25BuildIndex(bm25, docs, lists, 1).self
    /\ UNCHANGED <<docs, lists, dense, splade, weights, call, fz, al, rk, th>>

\* searcher.search("python", top_k) for the whole corpus
BM25Query ==
    /\ bm25.documents # 0
    /\ call = NoCall
    /\ LET r == BM25Search(bm25, docs, lists, <<"python">>, Len(lists[1]))
       IN call' = [op |-> "bm25_search", raised |-> r.raised, results |-> r.results]
    /\ UNCHANGED <<docs, lists, bm25, dense, splade, weights, fz, al, rk, th>>

NextBM25 == BM25Build \/ BM25Query

SpecBM25 == InitBM25 /\ [][NextBM25]_vars

\* the score the search gave document r
ScoreOf(r) ==
    LET i == CHOOSE i \in DOMAIN call.results : call.results[i].doc_id = DocIds[r]
    IN call.results[i].score

\* the number of tokens of document r
TokenLength(r) == Len(tokenize(docs[r].content))

Threads == {1, 2}

IdleThread == [pc |-> "idle"]

InitSearchers ==
    /\ AgentInit
    /\ lists[2] = <<>>
    /\ call = NoCall
    /\ fz = Idle /\ al = Idle /\ rk = Idle
    /\ th = [phase |-> "new", t |-> [i \in Threads |-> IdleThread]]

\* agent.build_index(documents) before the threads start
ServeIndex ==
    LET b == BM25BuildIndex(bm25, docs, lists, 1)
        s == SpladeBuildIndex(docs, lists, 1)
    IN /\ th.phase = "new"
       /\ bm25' = b.self
       /\ dense' = [documents |-> 1]
       /\ splade' = s.self
       /\ docs' = s.docs
       /\ th' = [th EXCEPT !.phase = "serving"]
       /\ UNCHANGED <<lists, weights, call, fz, al, rk>>

\* thread i enters agent.search(query, top_k, fusion_method)
EnterSearch(i, query, top_k, fusion_method) ==
    /\ th.phase = "serving"
    /\ th.t[i].pc = "idle"
    /\ th' = [th EXCEPT !.t[i] = [pc |-> "adjust", query |-> query, top_k |-> top_k,
                                  fusion_method |-> fusion_method]]
    /\ UNCHANGED <<docs, lists, bm25, dense, splade, weights, call, fz, al, rk>>

\* self.weights = self.dynamic_alpha_adjustment(query)
AdjustWeights(i) ==
    /\ th.phase = "serving"
    /\ th.t[i].pc = "adjust"
    /\ weights' = DynamicAlphaAdjustment(th.t[i].query)
    /\ th' = [th EXCEPT !.t[i].pc = "bm25"]
    /\ UNCHANGED <<docs, lists, bm25, dense, splade, call, fz, al, rk>>

\* bm25_results = self.bm25.search(query, top_k=top_k * 2)
SearchBM25(i) ==
    LET me == th.t[i]
        bm25_results == BM25Search(bm25, docs, lists, me.query, me.top_k * 2)
    IN /\ th.phase = "serving"
       /\ me.pc = "bm25"
       /\ th' = [th EXCEPT !.t[i] =
               [pc |-> IF bm25_results.raised = "none" THEN "dense" ELSE "done",
                query |-> me.query, top_k |-> me.top_k,
                fusion_method |-> me.fusion_method,
                raised |-> bm25_results.raised,
                result_lists |-> <<bm25_results.results>>,
                results |-> <<>>]]
       /\ UNCHANGED <<docs, lists, bm25, dense, splade, weights, call, fz, al, rk>>

\* dense_results = self.dense.search(query, top_k=top_k * 2)
SearchDense(i) ==
    LET me == th.t[i]
        dense_results == DenseSearch(dense, docs, lists, me.query, me.top_k * 2)
    IN /\ th.phase = "serving"
       /\ me.pc = "dense"
       /\ th' = [th EXCEPT !.t[i].pc = "splade",
                           !.t[i].result_lists = Append(@, dense_results)]
       /\ UNCHANGED <<docs, lists, bm25, dense, splade, weights, call, fz, al, rk>>

\* splade_results = self.splade.search(query, top_k=top_k * 2)
SearchSplade(i) ==
    LET me == th.t[i]
        splade_results == SpladeSearch(splade, docs, lists, me.query, me.top_k * 2)
    IN /\ th.phase = "serving"
       /\ me.pc = "splade"
       /\ th' = [th EXCEPT !.t[i].pc = "fuse",
                           !.t[i].result_lists = Append(@, splade_results)]
       /\ UNCHANGED <<docs, lists, bm25, dense, splade, weights, call, fz, al, rk>>

\* the fusion, which reads self.weights, and the final slice
FuseResults(i) ==
    LET me == th.t[i]
    IN /\ th.phase = "serving"
       /\ me.pc = "fuse"
       /\ th' = [th EXCEPT !.t[i].pc = "done",
                           !.t[i].results =
                               SearchTruncate(Fuse(weights, me.result_lists,
                                                   me.fusion_method), me.top_k)]
       /\ UNCHANGED <<docs, lists, bm25, dense, splade, weights, call, fz, al, rk>>

NextSearchers ==
    \/ ServeIndex
    \/ \E i \in Threads, q \in Queries, m \in {"rrf", "weighted"} :
          EnterSearch(i, q, MaxTopK, m)
    \/ \E i \in Threads : AdjustWeights(i)
    \/ \E i \in Threads : SearchBM25(i)
    \/ \E i \in Threads : SearchDense(i)
    \/ \E i \in Threads : SearchSplade(i)
    \/ \E i \in Threads : FuseResults(i)

SpecSearchers == InitSearchers /\ [][NextSearchers]_vars

\* what thread i's search returns when nothing runs beside it
AloneResult(i) ==
    HybridSearch(bm25, dense, splade, docs, lists,
                 th.t[i].query, th.t[i].top_k, th.t[i].fusion_method)

\* C9: searches that run at the same time on a built agent each return
\* exactly what they would return alone, however their steps interleave.
C9_InterleavedAsAlone ==
    \A i \in Threads :
        th.t[i].pc = "done" =>
            /\ th.t[i].raised = AloneResult(i).raised
            /\ th.t[i].results = AloneResult(i).results


(***************************************************************************)
(* A thread searching while another rebuilds the index (SpecRebuild)       *)
(***************************************************************************)
InitRebuild ==
    /\ AgentInit
    /\ call = NoCall
    /\ fz = Idle /\ al = Idle /\ rk = Idle
    /\ th = [phase |-> "new", t |-> [i \in Threads |-> IdleThread],
             b |-> [pc |-> "idle", i |-> 1]]

\* where the loop over the documents goes after its i-th round
AfterRound(i, refs, again, next) ==
    IF i < Len(refs) THEN [pc |-> again, i |-> i + 1] ELSE [pc |-> next, i |-> 1]

\* BM25Searcher.build_index: self.documents = documents
RebuildDocuments ==
    /\ th.phase = "serving" /\ th.b.pc = "idle"
    /\ bm25' = [bm25 EXCEPT !.documents = 2]
    /\ th' = [th EXCEPT !.b.pc = "bm25_doc_lengths"]
    /\ UNCHANGED <<docs, lists, dense, splade, weights, call, fz, al, rk>>

\* self.doc_lengths = []
RebuildResetLengths ==
    /\ th.phase = "serving" /\ th.b.pc = "bm25_doc_lengths"
    /\ bm25' = [bm25 EXCEPT !.doc_lengths = <<>>]
    /\ th' = [th EXCEPT !.b = IF lists[2] = <<>> THEN [pc |-> "bm25_avg", i |-> 1]
                                ELSE [pc |-> "bm25_append", i |-> 1]]
    /\ UNCHANGED <<docs, lists, dense, splade, weights, call, fz, al, rk>>

\* self.doc_lengths.append(len(tokens)) for the i-th document
RebuildAppendLength ==
    /\ th.phase = "serving" /\ th.b.pc = "bm25_append"
    /\ bm25' = [bm25 EXCEPT !.doc_lengths =
                    Append(@, Len(tokenize(docs[lists[2][th.b.i]].content)))]
    /\ th' = [th EXCEPT !.b = AfterRound(th.b.i, lists[2], "bm25_append", "bm25_avg")]
    /\ UNCHANGED <<docs, lists, dense, splade, weights, call, fz, al, rk>>

\* self.avg_doc_length = ...
RebuildAverage ==
    LET avg == AvgDocLength(bm25.doc_lengths)
    IN /\ th.phase = "serving" /\ th.b.pc = "bm25_avg"
       /\ bm25' = [bm25 EXCEPT !.avg_num = avg.num, !.avg_den = avg.den]
       /\ th' = [th EXCEPT !.b.pc = "bm25_idf"]
       /\ UNCHANGED <<docs, lists, dense, splade, weights, call, fz, al, rk>>

\* the loop that writes self.idf[term]
RebuildIdf ==
    /\ th.phase = "serving" /\ th.b.pc = "bm25_idf"
    /\ bm25' = [bm25 EXCEPT !.idf = IdfUpdate(@, TermDocCounts(docs, lists[2]),
                                              Len(lists[2]))]
    /\ th' = [th EXCEPT !.b.pc = "bm25_term_doc_freq"]
    /\ UNCHANGED <<docs, lists, dense, splade, weights, call, fz, al, rk>>

\* self.term_doc_freq = term_doc_counts
RebuildTermDocFreq ==
    /\ th.phase = "serving" /\ th.b.pc = "bm25_term_doc_freq"
    /\ bm25' = [bm25 EXCEPT !.term_doc_freq = TermDocCounts(docs, lists[2])]
    /\ th' = [th EXCEPT !.b.pc = "dense_documents"]
    /\ UNCHANGED <<docs, lists, dense, splade, weights, call, fz, al, rk>>

\* DenseSearcher.build_index: self.documents = documents
RebuildDense ==
    /\ th.phase = "serving" /\ th.b.pc = "dense_documents"
    /\ dense' = [documents |-> 2]
    /\ th' = [th EXCEPT !.b.pc = "splade_documents"]
    /\ UNCHANGED <<docs, lists, bm25, splade, weights, call, fz, al, rk>>

\* SPLADESearcher.build_index: self.documents = documents
RebuildSpladeDocuments ==
    /\ th.phase = "serving" /\ th.b.pc = "splade_documents"
    /\ splade' = [splade EXCEPT !.documents = 2]
    /\ th' = [th EXCEPT !.b.pc = "splade_vocab"]
    /\ UNCHANGED <<docs, lists, bm25, dense, weights, call, fz, al, rk>>

\* self.build_vocab(documents)
RebuildVocab ==
    /\ th.phase = "serving" /\ th.b.pc = "splade_vocab"
    /\ splade' = [splade EXCEPT !.vocab = BuildVocab(docs, lists[2])]
    /\ th' = [th EXCEPT !.b = IF lists[2] = <<>> THEN [pc |-> "done", i |-> 1]
                                ELSE [pc |-> "splade_encode", i |-> 1]]
    /\ UNCHANGED <<docs, lists, bm25, dense, weights, call, fz, al, rk>>

\* the i-th document gets its sparse vector unless it carries one
RebuildEncode ==
    LET r == lists[2][th.b.i]
    IN /\ th.phase = "serving" /\ th.b.pc = "splade_encode"
       /\ docs' = IF docs[r].sparse_vector.some THEN docs
                  ELSE [docs EXCEPT ![r].sparse_vector =
                           Some(EncodeToSparseVector(splade.vocab, docs[r].content))]
       /\ th' = [th EXCEPT !.b = AfterRound(th.b.i, lists[2], "splade_encode", "done")]
       /\ UNCHANGED <<lists, bm25, dense, splade, weights, call, fz, al, rk>>

NextRebuild ==
    \/ ServeIndex
    \/ \E q \in Queries, m \in {"rrf", "weighted"} : EnterSearch(1, q, MaxTopK, m)
    \/ AdjustWeights(1)
    \/ SearchBM25(1)
    \/ SearchDense(1)
    \/ SearchSplade(1)
    \/ FuseResults(1)
    \/ RebuildDocuments
    \/ RebuildResetLengths
    \/ RebuildAppendLength
    \/ RebuildAverage
    \/ RebuildIdf
    \/ RebuildTermDocFreq
    \/ RebuildDense
    \/ RebuildSpladeDocuments
    \/ RebuildVocab
    \/ RebuildEncode

SpecRebuild == InitRebuild /\ [][NextRebuild]_vars

\* the index a whole build_index(lists[l]) leaves behind
IndexAfter(prev, l) ==
    LET s == SpladeBuildIndex(prev.docs, lists, l)
    IN [bm25 |-> BM25BuildIndex(prev.bm25, prev.docs, lists, l).self,
        dense |-> [documents |-> l],
        splade |-> s.self,
        docs |-> s.docs]

OldIndex ==
    IndexAfter([bm25 |-> BM25Init, dense |-> [documents |-> 0], splade |-> SpladeInit,
                docs |-> [r \in DocRefs |-> NewDocument(r)]], 1)

NewIndex == IndexAfter(OldIndex, 2)

CurrentIndex == [bm25 |-> bm25, dense |-> dense, splade |-> splade, docs |-> docs]

\* what thread 1's search returns alone on the index ix
AloneOn(ix) ==
    HybridSearch(ix.bm25, ix.dense, ix.splade, ix.docs, lists,
                 th.t[1].query, th.t[1].top_k, th.t[1].fusion_method)

\* C10: a search that runs while build_index rebuilds the index reads, at
\* every step, an index that is entirely the old one or entirely the new
\* one, raises no out-of-range error, and so returns what it returns on
\* the old or on the new index.
C10_SearchSeesWholeIndex ==
    /\ th.t[1].pc \in {"bm25", "dense", "splade"} => CurrentIndex \in {OldIndex, NewIndex}
    /\ th.t[1].pc = "done" =>
          /\ th.t[1].raised = "none"
          /\ th.t[1].results \in {AloneOn(OldIndex).results, AloneOn(NewIndex).results}


(***************************************************************************)
(* A caller whose build_index fails on a document (SpecFailedBuild)        *)
(***************************************************************************)
\* the Document the caller built with content=None
BadRef == NDocs + 1

BadDocument ==
    [doc_id |-> DocIds[BadRef], content |-> NoContent,
     metadata |-> EmptyMap, embedding |-> None, sparse_vector |-> None]

\* the lists that hold the bad document: alone, after or before others
BadCorpora == {<<BadRef>>, <<1, BadRef>>, <<BadRef, 2>>, <<1, BadRef, 2>>}

InitFailedBuild ==
    /\ docs = [r \in DocRefs \cup {BadRef} |->
                  IF r = BadRef THEN BadDocument ELSE NewDocument(r)]
    /\ \E c1 \in Corpora, c2 \in BadCorpora :
          lists = [l \in ListRefs |-> IF l = 1 THEN c1 ELSE IF l = 2 THEN c2 ELSE <<>>]
    /\ bm25 = BM25Init
    /\ dense = [documents |-> 0]
    /\ splade = SpladeInit
    /\ weights = WeightsInit
    /\ call = NoCall
    /\ fz = Idle /\ al = Idle /\ rk = Idle /\ th = Idle

\* agent.build_index(documents) in a try block: the caller keeps what the
\* index was before the call
TryBuildIndex(l) ==
    LET b == BM25BuildIndex(bm25, docs, lists, l)
        s == SpladeBuildIndex(docs, lists, l)
    IN /\ call = NoCall
       /\ bm25' = b.self
       /\ IF b.raised = "none"
          THEN /\ dense' = [documents |-> l]
               /\ splade' = s.self
               /\ docs' = s.docs
          ELSE UNCHANGED <<dense, splade, docs>>
       /\ call' = [op |-> "build_index", list |-> l, raised |-> b.raised,
                   before |-> [bm25 |-> bm25, dense |-> dense,
                               splade |-> splade, docs |-> docs]]
       /\ UNCHANGED <<lists, weights, fz, al, rk, th>>

NextFailedBuild ==
    \/ Return
    \/ \E l \in CallerLists : TryBuildIndex(l)
    \/ \E q \in Queries, m \in {"rrf", "weighted"} : Search(q, MaxTopK, m)

SpecFailedBuild == InitFailedBuild /\ [][NextFailedBuild]_vars

\* what search(query, MaxTopK, fusion_method) returns or raises on index ix
SearchOn(ix, query, fusion_method) ==
    LET r == HybridSearch(ix.bm25, ix.dense, ix.splade, ix.docs, lists,
                          query, MaxTopK, fusion_method)
    IN [raised |-> r.raised, results |-> r.results]

\* C11: when build_index fails part-way the previous index stays in
\* place: every index holds what it held before the call and a search
\* returns what it returned before the failed build.
C11_FailedBuildKeepsIndex ==
    (call.op = "build_index" /\ call.raised # "none") =>
        /\ [bm25 |-> bm25, dense |-> dense, splade |-> splade, docs |-> docs]
              = call.before
        /\ \A q \in Queries, m \in {"rrf", "weighted"} :
              SearchOn([bm25 |-> bm25, dense |-> dense, splade |-> splade,
                        docs |-> docs], q, m) = SearchOn(call.before, q, m)


(***************************************************************************)
(* A caller using the three searchers one by one (SpecEngines)             *)
(***************************************************************************)
\* embeddings of the second document: close to the query's and opposite
SecondEmbeddings == {Some(<<3, 4, 0, 0>>), Some(<<-3, -4, 0, 0>>)}

\* embeddings of the third document: missing, empty, zero-norm, too short
MalformedEmbeddings == {None, Some(<<>>), Some(<<0, 0, 0, 0>>), Some(<<1, 1>>)}

\* the queries of a caller of the searchers: those of the agent's caller and
\* two that match a single document
EngineQueries == Queries \cup {<<"code">>, <<"Node.js">>}

InitEngines ==
    /\ \E e2 \in SecondEmbeddings, e3 \in MalformedEmbeddings :
          docs = [r \in DocRefs |->
                     IF r = 2 THEN [NewDocument(r) EXCEPT !.embedding = e2]
                     ELSE IF r = 3 THEN [NewDocument(r) EXCEPT !.embedding = e3]
                     ELSE NewDocument(r)]
    /\ \E c1 \in Corpora :
          lists = [l \in ListRefs |-> IF l = 1 THEN c1 ELSE <<>>]
    /\ bm25 = BM25Init
    /\ dense = [documents |-> 0]
    /\ splade = SpladeInit
    /\ weights = WeightsInit
    /\ call = NoCall
    /\ fz = Idle /\ al = Idle /\ rk = Idle /\ th = Idle

\* the caller sets doc.sparse_vector = None on a document it holds
ClearSparseVector(r) ==
    /\ call = NoCall
    /\ docs[r].sparse_vector # None
    /\ docs' = [docs EXCEPT ![r].sparse_vector = None]
    /\ UNCHANGED <<lists, bm25, dense, splade, weights, call, fz, al, rk, th>>

\* bm25.search(query, top_k)
BM25SearchCall(query, top_k) ==
    LET r == BM25Search(bm25, docs, lists, query, top_k)
    IN /\ call = NoCall
       /\ call' = [op |-> "bm25.search", query |-> query, top_k |-> top_k,
                   raised |-> r.raised, results |-> r.results]
       /\ UNCHANGED <<docs, lists, bm25, dense, splade, weights, fz, al, rk, th>>

\* dense.search(query, top_k)
DenseSearchCall(query, top_k) ==
    /\ call = NoCall
    /\ call' = [op |-> "dense.search", query |-> query, top_k |-> top_k,
                raised |-> "none",
                results |-> DenseSearch(dense, docs, lists, query, top_k)]
    /\ UNCHANGED <<docs, lists, bm25, dense, splade, weights, fz, al, rk, th>>

\* splade.search(query, top_k)
SpladeSearchCall(query, top_k) ==
    /\ call = NoCall
    /\ call' = [op |-> "splade.search", query |-> query, top_k |-> top_k,
                raised |-> "none",
                results |-> SpladeSearch(splade, docs, lists, query, top_k)]
    /\ UNCHANGED <<docs, lists, bm25, dense, splade, weights, fz, al, rk, th>>

NextEngines ==
    \/ Return
    \/ BuildIndex(1)
    \/ \E r \in DocRefs : ClearSparseVector(r)
    \/ \E q \in EngineQueries, k \in 1..MaxTopK : BM25SearchCall(q, k)
    \/ \E q \in EngineQueries, k \in 1..MaxTopK : DenseSearchCall(q, k)
    \/ \E q \in EngineQueries, k \in 1..MaxTopK : SpladeSearchCall(q, k)

SpecEngines == InitEngines /\ [][NextEngines]_vars

\* the document a result was made from, and its place in the corpus
DocOf(result) == docs[CHOOSE r \in DOMAIN docs : docs[r].doc_id = result.doc_id]

CorpusPlace(documents, result) ==
    CHOOSE p \in DOMAIN lists[documents] :
        docs[lists[documents][p]].doc_id = result.doc_id

\* the results come in score order, equal scores in corpus order
InScoreOrder(documents, results) ==
    \A i, j \in DOMAIN results :
        i < j =>
           /\ results[i].score >= results[j].score
           /\ results[i].score = results[j].score
                 => CorpusPlace(documents, results[i]) < CorpusPlace(documents, results[j])

\* C18: BM25Searcher.search returns the documents ordered by score
\* non-increasing, equal scores (zero scores included) in corpus insertion
\* order, truncated to top_k, the i-th result with rank = i and method =
\* "bm25".
C18_BM25ResultOrder ==
    (call.op = "bm25.search" /\ call.raised = "none") =>
        LET all == BM25Search(bm25, docs, lists, call.query,
                              Len(lists[bm25.documents])).results
        IN /\ Len(all) = Len(lists[bm25.documents])
           /\ InScoreOrder(bm25.documents, all)
           /\ \A p \in DOMAIN lists[bm25.documents] :
                 \E i \in DOMAIN all : CorpusPlace(bm25.documents, all[i]) = p
           /\ \A i \in DOMAIN all :
                 all[i].score = BM25Scores(bm25, docs, lists, call.query)
                                    .scores[CorpusPlace(bm25.documents, all[i])].score
           /\ Len(call.results) = Min(call.top_k, Len(all))
           /\ \A i \in DOMAIN call.results :
                 /\ call.results[i] = all[i]
                 /\ call.results[i].rank = i
                 /\ call.results[i].method = "bm25"

\* a search cut to top_k that kept the earlier of two zero-score documents
\* behind a document that scored
C18_Witness ==
    /\ call.op = "bm25.search"
    /\ Len(lists[bm25.documents]) > call.top_k
    /\ Len(call.results) = 2
    /\ call.results[1].score > 0
    /\ call.results[2].score = 0
    /\ CorpusPlace(bm25.documents, call.results[1]) = Len(lists[bm25.documents])

\* an embedding cosine_similarity can compare with the query's
WellFormed(embedding, query) ==
    /\ embedding # None
    /\ Len(embedding.v) = Len(EmbedQuery(query))
    /\ ISqrt(Dot(embedding.v, embedding.v)) # 0

\* C19: in DenseSearcher.search a document without an embedding scores 0 for
\* every query and is never ranked ahead of a document that has a
\* well-formed embedding, whatever that document's cosine similarity to the
\* query (negative similarity included).
C19_NoEmbeddingNeverAhead ==
    call.op = "dense.search" =>
        \A i \in DOMAIN call.results :
            DocOf(call.results[i]).embedding = None =>
                /\ call.results[i].score = 0
                /\ \A j \in DOMAIN call.results :
                      WellFormed(DocOf(call.results[j]).embedding, call.query)
                          => j < i

\* the cosine similarity of a well-formed embedding and the query's
CosineOf(embedding, query) ==
    DivTrunc(Dot(EmbedQuery(query), embedding.v) * ScoreUnit,
             ISqrt(Dot(EmbedQuery(query), EmbedQuery(query)))
                 * ISqrt(Dot(embedding.v, embedding.v)))

\* C20: a document whose embedding is missing, empty, zero-norm or of another
\* length than the query embedding, or whose sparse vector is missing,
\* scores exactly 0 for that method and does not abort the search:
\* DenseSearcher.search and SPLADESearcher.search still return a result for
\* every document (up to top_k) and the other documents keep their scores.
C20_MalformedVectorScoresZero ==
    /\ call.op = "dense.search" =>
          /\ call.raised = "none"
          /\ Len(call.results) = Min(call.top_k, Len(lists[dense.documents]))
          /\ \A i \in DOMAIN call.results :
                LET e == DocOf(call.results[i]).embedding
                IN call.results[i].score =
                       IF WellFormed(e, call.query) THEN CosineOf(e, call.query) ELSE 0
    /\ call.op = "splade.search" =>
          /\ call.raised = "none"
          /\ Len(call.results) = Min(call.top_k, Len(lists[splade.documents]))
          /\ \A i \in DOMAIN call.results :
                LET v == DocOf(call.results[i]).sparse_vector
                IN call.results[i].score =
                       IF v = None THEN 0
                       ELSE SparseSimilarity(
                                EncodeToSparseVector(splade.vocab, call.query), v.v)

\* a dense search that returned a document whose embedding is shorter than
\* the query's, with score 0, next to a document with a well-formed one
C20_Witness ==
    /\ call.op = "dense.search"
    /\ Len(call.results) = 2
    /\ \E i, j \in DOMAIN call.results :
          /\ DocOf(call.results[i]).embedding = Some(<<1, 1>>)
          /\ call.results[i].score = 0
          /\ WellFormed(DocOf(call.results[j]).embedding, call.query)
          /\ call.results[j].score # 0


(***************************************************************************)
(* Two agents over the same corpus, asked the same things (SpecTwoAgents)  *)
(***************************************************************************)
Agents == {1, 2}

\* mutant: the fusion scales each list by the agent's weight for its method
RRFOfWeighted(self_weights, result_lists, k) ==
    WeightedFusion(self_weights, result_lists)

\* agent.reciprocal_rank_fusion(result_lists, k) of an agent whose
\* self.weights are self_weights
RRFOf(self_weights, result_lists, k) == ReciprocalRankFusion(result_lists, k)

\* the result lists the caller hands to both agents
GivenLists ==
    {<<l1, l2, <<>>>> : l1 \in ResultLists(1, MaxListLen), l2 \in ResultLists(2, 1)}

\* the corpora both agents are built on: those that start with the first
\* document
SharedCorpora == {c \in Corpora : c # <<>> /\ c[1] = 1}

InitTwoAgents ==
    /\ docs = [r \in DocRefs |-> NewDocument(r)]
    /\ \E c1 \in SharedCorpora :
          lists = [l \in ListRefs |-> IF l = 1 THEN c1 ELSE <<>>]
    /\ bm25 = [a \in Agents |-> BM25Init]
    /\ dense = [a \in Agents |-> [documents |-> 0]]
    /\ splade = [a \in Agents |-> SpladeInit]
    /\ weights = [a \in Agents |-> WeightsInit]
    /\ call = NoCall
    /\ fz = Idle /\ al = Idle /\ rk = Idle /\ th = Idle

\* agent a: build_index(documents) on the caller's list
BuildIndexOf(a) ==
    LET b == BM25BuildIndex(bm25[a], docs, lists, 1)
        s == SpladeBuildIndex(docs, lists, 1)
    IN /\ call = NoCall
       /\ bm25[a].documents = 0
       /\ b.raised = "none"
       /\ bm25' = [bm25 EXCEPT ![a] = b.self]
       /\ dense' = [dense EXCEPT ![a] = [documents |-> 1]]
       /\ splade' = [splade EXCEPT ![a] = s.self]
       /\ docs' = s.docs
       /\ UNCHANGED <<lists, weights, call, fz, al, rk, th>>

\* agent a: search(query, top_k, fusion_method), the first of a pair of
\* equal calls
FirstSearch(a, query, top_k, fusion_method) ==
    LET r == HybridSearch(bm25[a], dense[a], splade[a], docs, lists,
                          query, top_k, fusion_method)
    IN /\ call = NoCall
       /\ weights' = [weights EXCEPT ![a] = r.weights]
       /\ call' = [op |-> "search", query |-> query, top_k |-> top_k,
                   fusion_method |-> fusion_method, raised |-> r.raised,
                   had |-> [x \in Agents |-> IF x = a THEN Some(weights[a]) ELSE None],
                   out |-> [x \in Agents |-> IF x = a THEN Some(r.results) ELSE None]]
       /\ UNCHANGED <<docs, lists, bm25, dense, splade, fz, al, rk, th>>

\* the other agent: the same search
SecondSearch(a) ==
    /\ call.op = "search"
    /\ call.out[a] = None
    /\ LET r == HybridSearch(bm25[a], dense[a], splade[a], docs, lists,
                             call.query, call.top_k, call.fusion_method)
       IN /\ weights' = [weights EXCEPT ![a] = r.weights]
          /\ call' = [call EXCEPT !.had[a] = Some(weights[a]),
                                  !.out[a] = Some(r.results)]
    /\ UNCHANGED <<docs, lists, bm25, dense, splade, fz, al, rk, th>>

\* agent a: reciprocal_rank_fusion(given), the first of a pair of calls on
\* equal lists
FirstRRF(a, given) ==
    /\ call = NoCall
    /\ call' = [op |-> "reciprocal_rank_fusion", given |-> given, raised |-> "none",
                had |-> [x \in Agents |-> IF x = a THEN Some(weights[a]) ELSE None],
                out |-> [x \in Agents |->
                           IF x = a THEN Some(RRFOf(weights[a], given, RRFConstant).fused)
                           ELSE None]]
    /\ UNCHANGED <<docs, lists, bm25, dense, splade, weights, fz, al, rk, th>>

\* the other agent: the same fusion on a list equal to the first one's
SecondRRF(a) ==
    /\ call.op = "reciprocal_rank_fusion"
    /\ call.out[a] = None
    /\ call' = [call EXCEPT !.had[a] = Some(weights[a]),
                            !.out[a] = Some(RRFOf(weights[a], call.given, RRFConstant).fused)]
    /\ UNCHANGED <<docs, lists, bm25, dense, splade, weights, fz, al, rk, th>>

NextTwoAgents ==
    \/ Return
    \/ \E a \in Agents : BuildIndexOf(a)
    \/ \E a \in Agents, q \in Queries, k \in 1..MaxTopK, m \in {"rrf", "weighted"} :
          FirstSearch(a, q, k, m)
    \/ \E a \in Agents : SecondSearch(a)
    \/ \E a \in Agents, g \in GivenLists : FirstRRF(a, g)
    \/ \E a \in Agents : SecondRRF(a)

SpecTwoAgents == InitTwoAgents /\ [][NextTwoAgents]_vars

\* both agents answered the pair of calls the caller holds
BothAnswered == call # NoCall /\ \A a \in Agents : call.out[a] # None

\* the two agents hold equal indexes
SameIndexes == bm25[1] = bm25[2] /\ dense[1] = dense[2] /\ splade[1] = splade[2]

\* C21: RRF fusion ignores the fusion weights: two agents that differ only
\* in their current weights return the same doc_ids, order, scores and ranks
\* from reciprocal_rank_fusion on equal input lists and from
\* search(query, top_k, "rrf") on the same corpus.
C21_RRFIgnoresWeights ==
    /\ (BothAnswered /\ call.op = "reciprocal_rank_fusion")
          => call.out[1] = call.out[2]
    /\ (BothAnswered /\ call.op = "search" /\ call.fusion_method = "rrf" /\ SameIndexes)
          => call.out[1] = call.out[2]

\* two agents with different weights fused equal lists of two documents
\* or more
C21_Witness ==
    /\ BothAnswered
    /\ call.op = "reciprocal_rank_fusion"
    /\ call.had[1] # call.had[2]
    /\ Len(call.out[1].v) >= 2
    /\ call.out[1].v[1].score > call.out[1].v[2].score


(***************************************************************************)
(* A caller asking for the weights of queries of every length (SpecAdjust) *)
(***************************************************************************)
MaxQueryLen == 11    \* most words in a query the caller builds

InitAdjust ==
    /\ docs = Idle /\ lists = Idle /\ bm25 = Idle /\ dense = Idle /\ splade = Idle
    /\ weights = WeightsInit
    /\ call = Idle /\ fz = Idle /\ rk = Idle /\ th = Idle
    /\ al = [query |-> <<>>, adjusted |-> None, returned |-> None]

\* the caller adds a word to the query it builds
TypeWord(w) ==
    /\ Len(al.query) < MaxQueryLen
    /\ al' = [al EXCEPT !.query = Append(@, w)]
    /\ UNCHANGED <<docs, lists, bm25, dense, splade, weights, call, fz, rk, th>>

\* agent.dynamic_alpha_adjustment(query) on the query built so far
Adjust ==
    /\ al.adjusted # Some(al.query)
    /\ al' = [al EXCEPT !.adjusted = Some(al.query),
                        !.returned = Some(DynamicAlphaAdjustment(al.query))]
    /\ UNCHANGED <<docs, lists, bm25, dense, splade, weights, call, fz, rk, th>>

NextAdjust == (\E w \in AlphaWords : TypeWord(w)) \/ Adjust

SpecAdjust == InitAdjust /\ [][NextAdjust]_vars

\* the capitalised words of a query
Capitalized(query) == {i \in DOMAIN query : IsUpperWord(query[i])}

\* C23: dynamic_alpha_adjustment returns, for every query (the empty one
\* included), base weights {bm25 0.4, dense 0.2, splade 0.4} for at most 3
\* tokens, {0.2, 0.5, 0.3} for at least 10, {0.3, 0.4, 0.3} otherwise; it
\* adds 0.1 to bm25 and takes 0.1 from dense exactly when at least 50% of
\* the tokens are capitalized; every returned weight is non-negative.
C23_WeightsOfEveryQuery ==
    al.adjusted # None =>
        LET q == al.adjusted.v
            n == Len(q)
            w == al.returned.v
            shift == IF 2 * Cardinality(Capitalized(q)) >= n THEN 1 ELSE 0
        IN /\ n <= 3 => w = [bm25 |-> 4 + shift, dense |-> 2 - shift, splade |-> 4]
           /\ n >= 10 => w = [bm25 |-> 2 + shift, dense |-> 5 - shift, splade |-> 3]
           /\ (n > 3 /\ n < 10) => w = [bm25 |-> 3 + shift, dense |-> 4 - shift, splade |-> 3]
           /\ w.bm25 >= 0 /\ w.dense >= 0 /\ w.splade >= 0

\* a query of ten words, half of them capitalised, was adjusted
C23_Witness ==
    /\ al.adjusted # None
    /\ Len(al.adjusted.v) = 10
    /\ Cardinality(Capitalized(al.adjusted.v)) = 5
    /\ al.returned.v = [bm25 |-> 3, dense |-> 4, splade |-> 3]


(***************************************************************************)
(* A caller asking for weights between searches (SpecPure)                 *)
(***************************************************************************)
InitPure ==
    /\ docs = [r \in DocRefs |-> NewDocument(r)]
    /\ \E c1 \in SharedCorpora :
          lists = [l \in ListRefs |-> IF l = 1 THEN c1 ELSE <<>>]
    /\ bm25 = BM25Init
    /\ dense = [documents |-> 0]
    /\ splade = SpladeInit
    /\ weights = WeightsInit
    /\ call = NoCall
    /\ al = [q \in Queries |-> None]
    /\ fz = Idle /\ rk = Idle /\ th = Idle

\* agent.dynamic_alpha_adjustment(query); the caller keeps what the first
\* call for each query returned
AdjustCall(query) ==
    LET r == DynamicAlphaCall(weights, query)
    IN /\ call = NoCall
       /\ weights' = r.weights
       /\ call' = [op |-> "dynamic_alpha_adjustment", query |-> query,
                   raised |-> "none", returned |-> r.returned,
                   before |-> [weights |-> weights, bm25 |-> bm25, dense |-> dense,
                               splade |-> splade, docs |-> docs]]
       /\ al' = IF al[query] = None THEN [al EXCEPT ![query] = Some(r.returned)] ELSE al
       /\ UNCHANGED <<docs, lists, bm25, dense, splade, fz, rk, th>>

NextPure ==
    \/ Return
    \/ BuildIndex(1)
    \/ \E q \in Queries, k \in 1..MaxTopK, m \in {"rrf", "weighted"} : Search(q, k, m)
    \/ \E q \in Queries : AdjustCall(q)

SpecPure == InitPure /\ [][NextPure]_vars

\* C24: dynamic_alpha_adjustment is pure: a call leaves self.weights and
\* the three indexes as they were, and what it returns for a query does not
\* depend on earlier calls to it or to search.
C24_AdjustmentIsPure ==
    call.op = "dynamic_alpha_adjustment" =>
        /\ call.before = [weights |-> weights, bm25 |-> bm25, dense |-> dense,
                          splade |-> splade, docs |-> docs]
        /\ al[call.query] = Some(call.returned)

\* the weights of a query were asked for a second time, after a search
\* for another query had changed self.weights, on a built index
C24_Witness ==
    /\ call.op = "dynamic_alpha_adjustment"
    /\ bm25.documents = 1
    /\ weights # WeightsInit
    /\ weights # call.returned
    /\ call.returned # WeightsInit
    /\ \A q \in Queries : al[q] # None


(***************************************************************************)
(* A caller changing its documents list after build_index (SpecAlias)      *)
(***************************************************************************)
\* the caller's list is list 1; list 2 is the copy it took before the build
InitAlias ==
    /\ docs = [r \in DocRefs |-> NewDocument(r)]
    /\ \E c1 \in Corpora :
          lists = [l \in ListRefs |-> IF l = 0 THEN <<>> ELSE c1]
    /\ bm25 = BM25Init
    /\ dense = [documents |-> 0]
    /\ splade = SpladeInit
    /\ weights = WeightsInit
    /\ call = NoCall
    /\ fz = Idle /\ al = Idle /\ rk = Idle /\ th = Idle

\* documents.append(doc)
CallerAppend(r) ==
    /\ call = NoCall
    /\ bm25.documents = 1
    /\ \A p \in DOMAIN lists[1] : lists[1][p] # r
    /\ lists' = [lists EXCEPT ![1] = Append(@, r)]
    /\ UNCHANGED <<docs, bm25, dense, splade, weights, call, fz, al, rk, th>>

\* documents.pop()
CallerPop ==
    /\ call = NoCall
    /\ bm25.documents = 1
    /\ lists[1] # <<>>
    /\ lists' = [lists EXCEPT ![1] = SubSeq(@, 1, Len(@) - 1)]
    /\ UNCHANGED <<docs, bm25, dense, splade, weights, call, fz, al, rk, th>>

\* documents.reverse()
CallerReverse ==
    /\ call = NoCall
    /\ bm25.documents = 1
    /\ Len(lists[1]) >= 2
    /\ lists' = [lists EXCEPT ![1] = Reverse(@)]
    /\ UNCHANGED <<docs, bm25, dense, splade, weights, call, fz, al, rk, th>>

\* agent.build_index(documents) while the list is as the caller copied it
BuildIndexAsCopied ==
    /\ lists[1] = lists[2]
    /\ BuildIndex(1)

NextAlias ==
    \/ Return
    \/ BuildIndexAsCopied
    \/ \E q \in Queries, m \in {"rrf", "weighted"} : Search(q, MaxTopK, m)
    \/ \E r \in DocRefs : CallerAppend(r)
    \/ CallerPop
    \/ CallerReverse

SpecAlias == InitAlias /\ [][NextAlias]_vars

\* what the search the caller holds returns on the documents as they were
\* at build_index
OnSnapshot ==
    HybridSearch(bm25, dense, splade, docs, [lists EXCEPT ![1] = lists[2]],
                 call.query, call.top_k, call.fusion_method)

\* C27: each index owns a snapshot of the documents taken at build_index:
\* after build_index(documents), the caller appending to, removing from or
\* reordering its list does not change the results of later searches and
\* does not make a later search fail (BM25's documents and doc_lengths stay
\* the same length and aligned).
C27_IndexOwnsSnapshot ==
    bm25.documents = 1 =>
        /\ Len(lists[bm25.documents]) = Len(bm25.doc_lengths)
        /\ call.op = "search" =>
              /\ call.raised = "none"
              /\ call.results = OnSnapshot.results
====
